---- MODULE Spec2Model ----
(***************************************************************************)
(* The entity / component / world engine of src/game.ts (first variant,    *)
(* lines 1-703): Entity, CollisionHandler, World and worldLoop.            *)
(*                                                                         *)
(* Coordinates are integers: every comparison and addition of the engine   *)
(* is exact on them.  The game's decimals (0.07, 0.3, ...) are integers in *)
(* thousandths of a grid square: Unit is one square.                       *)
(* JavaScript runs one callback to completion, so the                      *)
(* four calls of worldLoop are four actions ordered by pc, and key events  *)
(* are enabled only while no worldLoop is running (pc = "step").           *)
(***************************************************************************)
EXTENDS Integers, Sequences, FiniteSets, TLC

VARIABLES entities, inputs, pairs, scene, pc, events, before, ticks, ret

vars == <<entities, inputs, pairs, scene, pc, events, before, ticks, ret>>

\* ---------------------------------------------------------------- bounds
MaxEntities == 3
MaxTicks == 2
MaxSize == 2
MaxCoord == 2
MaxFrogTicks == 18
MaxKills == 5
MaxLaneTicks == 850

\* ------------------------------------------------------ program constants
Unit == 1000
ExitRight == 18
ExitLeft == -1
KeyW == 87

Keys == {KeyW}
Types == {"A", "B"}

\* ----------------------------------------------------------------- events
\* One record per call the engine makes during the current tick, in call
\* order.  self is the entity's id (0 for the world), arg the other entity's
\* id or the component's index (0 when there is none).
Ids(s) == {s[i].id : i \in DOMAIN s}

Ev(op, self, arg) == [op |-> op, self |-> self, arg |-> arg]

Log(w, op, self, arg) == [w EXCEPT !.events = Append(@, Ev(op, self, arg))]

\* ----------------------------------------------------------------- Entity
Vec(x, y, z) == [x |-> x, y |-> y, z |-> z]

Entity(id, type, width, height, position) ==
    [id |-> id, type |-> type, solid |-> TRUE, enabled |-> TRUE,
     components |-> <<>>, width |-> width, height |-> height,
     position |-> position, velocity |-> Vec(0, 0, 0),
     markedForDeletion |-> FALSE, properties |-> <<>>,
     customStep |-> "null", customCollide |-> "null", onDestroy |-> "null"]

Bounds(x1, y1, x2, y2) == [x1 |-> x1, y1 |-> y1, x2 |-> x2, y2 |-> y2]

getBoundsWithDepth(e) ==
    Bounds(e.position.x, e.position.y,
           e.position.x + e.width + e.position.z, e.position.y + e.height)

getBounds(e) ==
    Bounds(e.position.x, e.position.y,
           e.position.x + e.width, e.position.y + e.height)

collidesWithTouching(a, b) ==
    LET b1 == getBounds(a)
        b2 == getBounds(b)
    IN  b1.x1 <= b2.x2 /\ b1.x2 >= b2.x1 /\ b1.y1 <= b2.y2 /\ b1.y2 >= b2.y1

collidesWithLopsided(a, b) ==
    LET b1 == getBounds(a)
        b2 == getBounds(b)
    IN  b1.x1 < b2.x2 /\ b1.x2 >= b2.x1 /\ b1.y1 < b2.y2 /\ b1.y2 > b2.y1

collidesWithNonEmpty(a, b) ==
    LET b1 == getBounds(a)
        b2 == getBounds(b)
    IN  /\ b1.x1 < b2.x2 /\ b1.x2 > b2.x1 /\ b1.y1 < b2.y2 /\ b1.y2 > b2.y1
        /\ b1.x1 < b1.x2 /\ b1.y1 < b1.y2
        /\ b2.x1 < b2.x2 /\ b2.y1 < b2.y2

collidesWith(a, b) ==
    LET b1 == getBounds(a)
        b2 == getBounds(b)
    IN  b1.x1 < b2.x2 /\ b1.x2 > b2.x1 /\ b1.y1 < b2.y2 /\ b1.y2 > b2.y1

\* ------------------------------------------------------------- Components
\* A Drawable keeps its mesh position as twice the scene coordinate, so that
\* position + width / 2 stays an integer.
Drawable == [kind |-> "Drawable", model |-> Vec(0, 0, 0)]
TextDrawable == [kind |-> "TextDrawable", model |-> Vec(0, 0, 0)]

Drawable_handle(e, c) ==
    [c EXCEPT !.model = Vec(2 * e.position.x + e.width,
                            2 * e.position.y + e.height,
                            2 * e.position.z)]

\* TextDrawable.handle rewrites the div from fields fixed at construction.
Component_handle(e, c) ==
    IF c.kind = "Drawable" THEN Drawable_handle(e, c) ELSE c

\* w is the world being run: [entities, scene, events, before, rnd]; i
\* indexes entities.
HandleComponent(w, i, k) ==
    LET e == w.entities[i]
        w1 == [w EXCEPT !.entities[i].components[k] =
                            Component_handle(e, e.components[k])]
    IN  Log(w1, "handle", e.id, k)

\* Drawable.destroy removes the mesh from the scene; Component.destroy and
\* TextDrawable.destroy do nothing.
Component_destroy(w, i, k) ==
    LET e == w.entities[i]
        w1 == IF e.components[k].kind = "Drawable"
              THEN [w EXCEPT !.scene = @ \ {<<e.id, k>>}]
              ELSE w
    IN  Log(w1, "destroyComponent", e.id, k)

RECURSIVE DestroyComponents(_, _, _)
DestroyComponents(w, i, k) ==
    IF k > Len(w.entities[i].components) THEN w
    ELSE DestroyComponents(Component_destroy(w, i, k), i, k + 1)

Entity_destroy(w, i) ==
    LET w1 == Log(w, "destroy", w.entities[i].id, 0)
        w2 == [w1 EXCEPT !.entities[i].markedForDeletion = TRUE]
    IN  DestroyComponents(w2, i, 1)

Entity_moveFlat(w, i, vel) ==
    LET p == w.entities[i].position
    IN  [w EXCEPT !.entities[i].position = Vec(p.x + vel.x, p.y + vel.y, p.z)]

Entity_move(w, i, vel) ==
    LET p == w.entities[i].position
    IN  [w EXCEPT !.entities[i].position =
                      Vec(p.x + vel.x, p.y + vel.y, p.z + vel.z)]

\* buildLog's customStep: move, then destroy once past the exit bound.
Log_customStep(w, i) ==
    LET w1 == Entity_move(w, i, w.entities[i].velocity)
        e == w1.entities[i]
    IN  IF \/ (e.velocity.x > 0 /\ e.position.x > ExitRight * Unit)
           \/ (e.velocity.x < 0 /\ e.position.x < ExitLeft * Unit - e.width)
        THEN Entity_destroy(w1, i)
        ELSE w1

Vehicle_customStepEarly(w, i) ==
    LET w1 == Entity_move(w, i, w.entities[i].velocity)
        e == w1.entities[i]
    IN  IF \/ (e.velocity.x > 0 /\ e.position.x >= 18 * Unit)
           \/ (e.velocity.x < 0 /\ e.position.x <= -2 * Unit)
        THEN Entity_destroy(w1, i)
        ELSE w1

\* buildVehicle's customStep (lines 542-547).
Vehicle_customStep(w, i) ==
    LET w1 == Entity_move(w, i, w.entities[i].velocity)
        e == w1.entities[i]
    IN  IF \/ (e.velocity.x > 0 /\ e.position.x > 18 * Unit)
           \/ (e.velocity.x < 0 /\ e.position.x < -2 * Unit)
        THEN Entity_destroy(w1, i)
        ELSE w1

\* ----------------------------------------------------------------- turtle
\* The frog's passiveVelocity can be the very object that is a platform's
\* velocity (line 376, 382): passiveRef is the id of that platform, 0 when
\* the frog has an object of its own.  An assignment to a field of the
\* platform's velocity is then seen through passiveVelocity as well.
RECURSIVE ShareVelocity(_, _, _, _)
ShareVelocity(ents, id, vel, k) ==
    IF k > Len(ents) THEN ents
    ELSE ShareVelocity(
             IF ents[k].type = "frog" /\ ents[k].properties.passiveRef = id
             THEN [ents EXCEPT ![k].properties.passiveVelocity = vel]
             ELSE ents,
             id, vel, k + 1)

SetVelocityZ(w, i, vz) ==
    LET vel == [w.entities[i].velocity EXCEPT !.z = vz]
    IN  [w EXCEPT !.entities =
            ShareVelocity([@ EXCEPT ![i].velocity = vel],
                          w.entities[i].id, vel, 1)]

\* -2.01, the depth of a submerged turtle (line 491).
Submerged == -2 * Unit - Unit \div 100

\* The part of buildTurtle's customStep that sinks and raises the turtle
\* (lines 485-504), without the reset of stepsToSink.
Turtle_sinkNoReset(w, i) ==
    LET w1 == Entity_move(w, i, w.entities[i].velocity)
        e == w1.entities[i]
        p == e.properties
        stepsToSink == p.stepsToSink - 1
        w2 == [w1 EXCEPT !.entities[i].properties.stepsToSink = stepsToSink]
        w3 == IF stepsToSink = 0
              THEN SetVelocityZ(w2, i, IF p.state = "floating" THEN -p.speed
                                       ELSE p.speed)
              ELSE w2
    IN  IF stepsToSink < 0 /\ p.state = "floating"
           /\ e.position.z < Submerged
        THEN SetVelocityZ(
                 [w3 EXCEPT !.entities[i].position.z = Submerged,
                            !.entities[i].properties.state = "submerged"],
                 i, 0)
        ELSE IF stepsToSink < 0 /\ p.state = "submerged"
                /\ e.position.z > -Unit
        THEN SetVelocityZ(
                 [w3 EXCEPT !.entities[i].position.z = -Unit,
                            !.entities[i].properties.state = "floating"],
                 i, 0)
        ELSE w3

\* The part of buildTurtle's customStep that sinks and raises the turtle
\* (lines 485-504); speed and sinkPeriod are the variables the closure
\* captured.
Turtle_sink(w, i) ==
    LET w1 == Entity_move(w, i, w.entities[i].velocity)
        e == w1.entities[i]
        p == e.properties
        stepsToSink == p.stepsToSink - 1
        w2 == [w1 EXCEPT !.entities[i].properties.stepsToSink = stepsToSink]
        w3 == IF stepsToSink = 0
              THEN SetVelocityZ(w2, i, IF p.state = "floating" THEN -p.speed
                                       ELSE p.speed)
              ELSE w2
    IN  IF stepsToSink < 0 /\ p.state = "floating"
           /\ e.position.z < Submerged
        THEN SetVelocityZ(
                 [w3 EXCEPT !.entities[i].position.z = Submerged,
                            !.entities[i].properties.state = "submerged",
                            !.entities[i].properties.stepsToSink =
                                p.sinkPeriod],
                 i, 0)
        ELSE IF stepsToSink < 0 /\ p.state = "submerged"
                /\ e.position.z > -Unit
        THEN SetVelocityZ(
                 [w3 EXCEPT !.entities[i].position.z = -Unit,
                            !.entities[i].properties.state = "floating",
                            !.entities[i].properties.stepsToSink =
                                p.sinkPeriod],
                 i, 0)
        ELSE w3

\* buildTurtle's customStep (lines 484-508).
Turtle_customStep(w, i) ==
    LET w1 == Turtle_sink(w, i)
        e == w1.entities[i]
    IN  IF \/ (e.velocity.x > 0 /\ e.position.x > 18 * Unit)
           \/ (e.velocity.x < 0 /\ e.position.x < -2 * Unit)
        THEN Entity_destroy(w1, i)
        ELSE w1

\* ------------------------------------------------------------- log builder
\* buildLog(y, speed, direction) (lines 432-451); random is the value of
\* Math.floor(Math.random() * 4).
buildLog(id, y, speed, direction, random) ==
    LET width == (2 + random) * Unit
    IN  [Entity(id, "log", width, Unit,
                Vec(IF direction = "RIGHT" THEN -width ELSE 17 * Unit,
                    y * Unit, -Unit))
            EXCEPT !.velocity = Vec(IF direction = "RIGHT" THEN speed
                                    ELSE -speed, 0, 0),
                   !.customStep = "log",
                   !.components = <<Drawable>>]

\* An id that no entity has and that no passiveRef names.
Named(ents) ==
    Ids(ents) \cup {ents[k].properties.passiveRef :
                        k \in {n \in DOMAIN ents : ents[n].type = "frog"}}

NewId(w) ==
    1 + CHOOSE m \in Named(w.entities) : \A n \in Named(w.entities) : n <= m

Abs(x) == IF x < 0 THEN -x ELSE x

\* Math.round(stepsPerBlock * blocks) for stepsPerBlock = 1 / |velocity.x|.
StepsFor(blocks, vx) == (2 * blocks * Unit + Abs(vx)) \div (2 * Abs(vx))

\* buildLogBuilder's customStep (lines 419-427); speed and direction are the
\* variables the closure captured, w.rnd[id] the values Math.random returns
\* to this builder.
LogBuilder_customStep(w, i) ==
    LET e == w.entities[i]
        p == e.properties
        stepsToNext == p.stepsToNext - 1
        log == buildLog(NewId(w), p.y, p.speed, p.direction, w.rnd[e.id].width)
    IN  IF stepsToNext <= 0
        THEN [Log(w, "push", e.id, log.id)
                 EXCEPT !.entities =
                            Append([@ EXCEPT ![i].properties.stepsToNext =
                                       StepsFor(log.width \div Unit + 1
                                                    + w.rnd[e.id].gap,
                                                log.velocity.x)],
                                   log),
                        !.scene = @ \cup {<<log.id, 1>>}]
        ELSE [w EXCEPT !.entities[i].properties.stepsToNext = stepsToNext]

\* ------------------------------------------------------------------- frog
\* `87 in inputs && inputs[87]`.
Pressed(in, key) == key \in DOMAIN in /\ in[key]

\* Math.round of a coordinate, as a multiple of Unit.
Round(x) == ((x + Unit \div 2) \div Unit) * Unit

getGridPos(e) == [x |-> Round(e.position.x), y |-> Round(e.position.y)]

\* Math.sin(jumpProgress / jumpSteps * PI) * 0.3 for jumpSteps = 1 / 0.07, in
\* thousandths, for jumpProgress = 1 .. 22 (a jump of one and a half
\* squares, the longest there is, takes 22 steps).
JumpHeight(jumpProgress) ==
    <<65, 128, 184, 231, 267, 291, 300, 295, 275, 243, 198, 145, 84, 19,
      -47, -110, -169, -219, -258, -285, -299, -298>>[jumpProgress]

gameOver(w) == Log(w, "gameOver", 0, 0)

killFrogKeepsMark(w, i) ==
    LET lives == w.entities[i].properties.lives - 1
        w1 == Log([w EXCEPT !.entities[i].properties.lives = lives,
                            !.entities[i].properties.jumpDir = "NONE"],
                  "killFrog", w.entities[i].id, 0)
    IN  IF lives >= 0
        THEN [w1 EXCEPT !.entities[i].position = Vec(8 * Unit, 0, 0),
                        !.entities[i].properties.passiveVelocity = Vec(0, 0, 0),
                        !.entities[i].properties.passiveRef = 0]
        ELSE gameOver(w1)

killFrogAlwaysResets(w, i) ==
    LET lives == w.entities[i].properties.lives - 1
        w1 == Log([w EXCEPT !.entities[i].properties.lives = lives,
                            !.entities[i].properties.markedForDeath = FALSE,
                            !.entities[i].properties.jumpDir = "NONE",
                            !.entities[i].position = Vec(8 * Unit, 0, 0),
                            !.entities[i].properties.passiveVelocity =
                                Vec(0, 0, 0),
                            !.entities[i].properties.passiveRef = 0],
                  "killFrog", w.entities[i].id, 0)
    IN  IF lives >= 0 THEN w1 ELSE gameOver(w1)

\* scripts.killFrog (lines 614-625).
killFrog(w, i) ==
    LET lives == w.entities[i].properties.lives - 1
        w1 == Log([w EXCEPT !.entities[i].properties.lives = lives,
                            !.entities[i].properties.markedForDeath = FALSE,
                            !.entities[i].properties.jumpDir = "NONE"],
                  "killFrog", w.entities[i].id, 0)
    IN  IF lives >= 0
        THEN [w1 EXCEPT !.entities[i].position = Vec(8 * Unit, 0, 0),
                        !.entities[i].properties.passiveVelocity = Vec(0, 0, 0),
                        !.entities[i].properties.passiveRef = 0]
        ELSE gameOver(w1)

\* The jump branch without the snap to the target square.
Frog_jumpNoSnap(w, i) ==
    LET w1 == Entity_move(w, i, w.entities[i].velocity)
        e == w1.entities[i]
        p == e.properties
        progress == p.jumpProgress + 1
        arrived ==
            CASE p.jumpDir = "UP" -> e.position.y >= p.targetSquare.y
              [] p.jumpDir = "DOWN" -> e.position.y <= p.targetSquare.y
              [] p.jumpDir = "LEFT" -> e.position.x <= p.targetSquare.x
              [] OTHER -> e.position.x >= p.targetSquare.x
    IN  IF arrived
        THEN [w1 EXCEPT !.entities[i].position.z = 0,
                        !.entities[i].velocity = Vec(0, 0, 0),
                        !.entities[i].properties.jumpProgress = progress,
                        !.entities[i].properties.jumpDir = "NONE"]
        ELSE [w1 EXCEPT !.entities[i].position.z = JumpHeight(progress),
                        !.entities[i].properties.jumpProgress = progress]

\* The jump branch of the frog's customStep (lines 282-317).
Frog_jump(w, i) ==
    LET w1 == Entity_move(w, i, w.entities[i].velocity)
        e == w1.entities[i]
        p == e.properties
        progress == p.jumpProgress + 1
        arrived ==
            CASE p.jumpDir = "UP" -> e.position.y >= p.targetSquare.y
              [] p.jumpDir = "DOWN" -> e.position.y <= p.targetSquare.y
              [] p.jumpDir = "LEFT" -> e.position.x <= p.targetSquare.x
              [] OTHER -> e.position.x >= p.targetSquare.x
        landing ==
            IF p.jumpDir \in {"UP", "DOWN"}
            THEN Vec(e.position.x, p.targetSquare.y, 0)
            ELSE Vec(p.targetSquare.x, e.position.y, 0)
    IN  IF arrived
        THEN [w1 EXCEPT !.entities[i].position = landing,
                        !.entities[i].velocity = Vec(0, 0, 0),
                        !.entities[i].properties.jumpProgress = progress,
                        !.entities[i].properties.jumpDir = "NONE"]
        ELSE [w1 EXCEPT !.entities[i].position.z = JumpHeight(progress),
                        !.entities[i].properties.jumpProgress = progress]

\* The key checks and the jump set-up (lines 327-357).
Frog_startJump(w, i, in) ==
    LET e == w.entities[i]
        p == e.properties
        curPos == getGridPos(e)
        start(dir, vel, target) ==
            [w EXCEPT !.entities[i].velocity = vel,
                      !.entities[i].properties =
                          [p EXCEPT !.jumpDir = dir,
                                    !.targetSquare = target,
                                    !.passiveVelocity = Vec(0, 0, 0),
                                    !.passiveRef = 0,
                                    !.jumpSteps = (Unit * Unit) \div p.jumpSpeed,
                                    !.jumpProgress = 0]]
    IN  IF Pressed(in, 87) /\ e.position.y < 12 * Unit
        THEN start("UP", Vec(0, p.jumpSpeed, 0),
                   [curPos EXCEPT !.y = @ + Unit])
        ELSE IF Pressed(in, 65) /\ e.position.x > 0
        THEN start("LEFT", Vec(-p.jumpSpeed, 0, 0),
                   [curPos EXCEPT !.x = @ - Unit])
        ELSE IF Pressed(in, 83) /\ e.position.y > 0
        THEN start("DOWN", Vec(0, -p.jumpSpeed, 0),
                   [curPos EXCEPT !.y = @ - Unit])
        ELSE IF Pressed(in, 68) /\ e.position.x < 16 * Unit
        THEN start("RIGHT", Vec(p.jumpSpeed, 0, 0),
                   [curPos EXCEPT !.x = @ + Unit])
        ELSE w

\* buildFrog's customStep (lines 281-361).
Frog_customStep(w, i, in) ==
    LET p == w.entities[i].properties
        unmark(v) == [v EXCEPT !.entities[i].properties.markedForDeath = FALSE]
    IN  IF p.jumpDir # "NONE" THEN unmark(Frog_jump(w, i))
        ELSE IF p.markedForDeath /\ p.passiveVelocity = Vec(0, 0, 0)
        THEN killFrog(w, i)
        ELSE unmark(Frog_startJump(Entity_move(w, i, p.passiveVelocity), i, in))

customStep(w, i, in) ==
    LET w1 == Log(w, "customStep", w.entities[i].id, 0)
    IN  CASE w.entities[i].customStep = "log" -> Log_customStep(w1, i)
          [] w.entities[i].customStep = "vehicle" -> Vehicle_customStep(w1, i)
          [] w.entities[i].customStep = "frog" -> Frog_customStep(w1, i, in)
          [] w.entities[i].customStep = "turtle" -> Turtle_customStep(w1, i)
          [] w.entities[i].customStep = "logBuilder" ->
                 LogBuilder_customStep(w1, i)
          [] OTHER -> w1

RECURSIVE HandleAll(_, _, _)
HandleAll(w, i, k) ==
    IF k > Len(w.entities[i].components) THEN w
    ELSE HandleAll(HandleComponent(w, i, k), i, k + 1)

Entity_stepHookThenMove(w, i, in) ==
    LET w1 == HandleAll(w, i, 1)
        w2 == IF w1.entities[i].customStep # "null"
              THEN customStep(w1, i, in) ELSE w1
    IN  Entity_move(Log(w2, "move", w2.entities[i].id, 0), i,
                    w2.entities[i].velocity)

Entity_step(w, i, in) ==
    LET w1 == HandleAll(w, i, 1)
    IN  IF w1.entities[i].customStep # "null"
        THEN customStep(w1, i, in)
        ELSE Entity_move(Log(w1, "move", w1.entities[i].id, 0), i,
                         w1.entities[i].velocity)

\* The collide hooks a caller can install: "noop" changes nothing,
\* "destroy" calls this.destroy().
\* customCollide with a water tile marking a jumping frog as well.
Frog_customCollideMarksJumping(w, i, j) ==
    LET p == w.entities[i].properties
        e == w.entities[j]
    IN  CASE e.type \in {"vehicle", "crocodile"} -> killFrog(w, i)
          [] e.type = "water" ->
                 [w EXCEPT !.entities[i].properties.markedForDeath = TRUE]
          [] e.type = "log" ->
                 IF p.jumpDir = "NONE"
                 THEN [w EXCEPT !.entities[i].properties.passiveVelocity =
                                    e.velocity,
                                !.entities[i].properties.passiveRef = e.id]
                 ELSE w
          [] e.type = "turtle" ->
                 IF p.jumpDir = "NONE"
                 THEN LET w1 == [w EXCEPT
                                    !.entities[i].properties.passiveVelocity =
                                        e.velocity,
                                    !.entities[i].properties.passiveRef = e.id]
                      IN  IF e.properties.state = "submerged"
                             /\ e.velocity.z = 0
                          THEN killFrog(w1, i) ELSE w1
                 ELSE w
          [] OTHER -> w

\* customCollide killing the frog on every submerged turtle, moving or not.
Frog_customCollideKillsSubmerged(w, i, j) ==
    LET p == w.entities[i].properties
        e == w.entities[j]
    IN  CASE e.type \in {"vehicle", "crocodile"} -> killFrog(w, i)
          [] e.type = "water" ->
                 IF p.jumpDir = "NONE"
                 THEN [w EXCEPT !.entities[i].properties.markedForDeath = TRUE]
                 ELSE w
          [] e.type = "log" ->
                 IF p.jumpDir = "NONE"
                 THEN [w EXCEPT !.entities[i].properties.passiveVelocity =
                                    e.velocity,
                                !.entities[i].properties.passiveRef = e.id]
                 ELSE w
          [] e.type = "turtle" ->
                 IF p.jumpDir = "NONE"
                 THEN LET w1 == [w EXCEPT
                                    !.entities[i].properties.passiveVelocity =
                                        e.velocity,
                                    !.entities[i].properties.passiveRef = e.id]
                      IN  IF e.properties.state = "submerged"
                          THEN killFrog(w1, i) ELSE w1
                 ELSE w
          [] OTHER -> w

\* buildFrog's customCollide (lines 363-391).
Frog_customCollide(w, i, j) ==
    LET p == w.entities[i].properties
        e == w.entities[j]
    IN  CASE e.type \in {"vehicle", "crocodile"} -> killFrog(w, i)
          [] e.type = "water" ->
                 IF p.jumpDir = "NONE"
                 THEN [w EXCEPT !.entities[i].properties.markedForDeath = TRUE]
                 ELSE w
          [] e.type = "log" ->
                 IF p.jumpDir = "NONE"
                 THEN [w EXCEPT !.entities[i].properties.passiveVelocity =
                                    e.velocity,
                                !.entities[i].properties.passiveRef = e.id]
                 ELSE w
          [] e.type = "turtle" ->
                 IF p.jumpDir = "NONE"
                 THEN LET w1 == [w EXCEPT
                                    !.entities[i].properties.passiveVelocity =
                                        e.velocity,
                                    !.entities[i].properties.passiveRef = e.id]
                      IN  IF e.properties.state = "submerged"
                             /\ e.velocity.z = 0
                          THEN killFrog(w1, i) ELSE w1
                 ELSE w
          [] OTHER -> w

customCollide(w, i, j) ==
    LET w1 == Log(w, "collide", w.entities[i].id, w.entities[j].id)
    IN  CASE w.entities[i].customCollide = "destroy" -> Entity_destroy(w1, i)
          [] w.entities[i].customCollide = "frog" -> Frog_customCollide(w1, i, j)
          [] OTHER -> w1

Entity_collide(w, i, j) ==
    IF w.entities[i].customCollide # "null" THEN customCollide(w, i, j) ELSE w

\* ------------------------------------------------------- CollisionHandler
RECURSIVE inArrFrom(_, _, _)
inArrFrom(str, arr, k) ==
    IF k > Len(arr) THEN FALSE
    ELSE IF arr[k] = str THEN TRUE
    ELSE inArrFrom(str, arr, k + 1)

inArr(str, arr) == inArrFrom(str, arr, 1)

ReactsEitherWay(prs, t1, t2) ==
    \/ t1 \in DOMAIN prs /\ inArr(t2, prs[t1])
    \/ t2 \in DOMAIN prs /\ inArr(t1, prs[t2])

Reacts(prs, t1, t2) == t1 \in DOMAIN prs /\ inArr(t2, prs[t1])

\* Both reactions of one visited pair (lines 214-217).
DispatchFirstOnly(w, prs, i, j) ==
    LET e1 == w.entities[i]
        e2 == w.entities[j]
    IN  IF Reacts(prs, e1.type, e2.type) THEN Entity_collide(w, i, j)
        ELSE IF Reacts(prs, e2.type, e1.type) THEN Entity_collide(w, j, i)
        ELSE w

Dispatch(w, prs, i, j) ==
    LET e1 == w.entities[i]
        e2 == w.entities[j]
        w1 == IF Reacts(prs, e1.type, e2.type)
              THEN Entity_collide(w, i, j) ELSE w
    IN  IF Reacts(prs, e2.type, e1.type) THEN Entity_collide(w1, j, i) ELSE w1

\* The body of the double loop for the ordered pair (e1, e2) (lines 212-218).
\* An "overlap" event records that the test of line 213 passed.
VisitPairAnySolid(w, prs, i, j) ==
    LET e1 == w.entities[i]
        e2 == w.entities[j]
    IN  IF (e1.solid \/ e2.solid) /\ e1.id # e2.id /\ collidesWith(e1, e2)
        THEN Dispatch(Log(w, "overlap", e1.id, e2.id), prs, i, j)
        ELSE w

VisitPair(w, prs, i, j) ==
    LET e1 == w.entities[i]
        e2 == w.entities[j]
    IN  IF e1.solid /\ e2.solid /\ e1.id # e2.id /\ collidesWith(e1, e2)
        THEN Dispatch(Log(w, "overlap", e1.id, e2.id), prs, i, j)
        ELSE w

RECURSIVE ScanInner(_, _, _, _)
ScanInner(w, prs, i, j) ==
    IF j > Len(w.entities) THEN w
    ELSE ScanInner(VisitPair(w, prs, i, j), prs, i, j + 1)

RECURSIVE ScanOuter(_, _, _)
ScanOuter(w, prs, i) ==
    IF i > Len(w.entities) THEN w
    ELSE ScanOuter(ScanInner(w, prs, i, 1), prs, i + 1)

\* A scan that tests every pair against the entities as they were when the
\* call began.
VisitPairSnapshot(w, prs, snap, i, j) ==
    IF /\ snap[i].solid /\ snap[j].solid /\ snap[i].id # snap[j].id
       /\ collidesWith(snap[i], snap[j])
    THEN Dispatch(Log(w, "overlap", snap[i].id, snap[j].id), prs, i, j)
    ELSE w

RECURSIVE ScanInnerSnapshot(_, _, _, _, _)
ScanInnerSnapshot(w, prs, snap, i, j) ==
    IF j > Len(snap) THEN w
    ELSE ScanInnerSnapshot(VisitPairSnapshot(w, prs, snap, i, j),
                           prs, snap, i, j + 1)

RECURSIVE ScanOuterSnapshot(_, _, _, _)
ScanOuterSnapshot(w, prs, snap, i) ==
    IF i > Len(snap) THEN w
    ELSE ScanOuterSnapshot(ScanInnerSnapshot(w, prs, snap, i, 1),
                           prs, snap, i + 1)

CollisionHandler_handleCollisionsSnapshot(w, prs) ==
    ScanOuterSnapshot(w, prs, w.entities, 1)

CollisionHandler_handleCollisions(w, prs) == ScanOuter(w, prs, 1)

\* ------------------------------------------------------------------ World
RemoveAt(s, i) == SubSeq(s, 1, i - 1) \o SubSeq(s, i + 1, Len(s))

\* The loop of handleDeletions, i counted from 1: splice(i--, 1) followed by
\* the loop's i++ revisits index i.
RECURSIVE SpliceSkipping(_, _)
SpliceSkipping(w, i) ==
    IF i > Len(w.entities) THEN w
    ELSE IF w.entities[i].markedForDeletion
         THEN SpliceSkipping(
                  [Log(w, "splice", w.entities[i].id, 0)
                      EXCEPT !.entities = RemoveAt(@, i)], i + 1)
         ELSE SpliceSkipping(w, i + 1)

RECURSIVE SpliceMarked(_, _)
SpliceMarked(w, i) ==
    IF i > Len(w.entities) THEN w
    ELSE IF w.entities[i].markedForDeletion
         THEN SpliceMarked(
                  [Log(w, "splice", w.entities[i].id, 0)
                      EXCEPT !.entities = RemoveAt(@, i)], i)
         ELSE SpliceMarked(w, i + 1)

\* before keeps the collection as it was when the sweep (or draw) began.
handleDeletionsSkipping(w) ==
    SpliceSkipping([Log(w, "handleDeletions", 0, 0)
                       EXCEPT !.before = w.entities], 1)

handleDeletions(w) ==
    SpliceMarked([Log(w, "handleDeletions", 0, 0)
                     EXCEPT !.before = w.entities], 1)

\* for (let e of this.entities) reads the live array.
RECURSIVE StepFromAll(_, _, _)
StepFromAll(w, in, i) ==
    IF i > Len(w.entities) THEN w
    ELSE StepFromAll(Entity_step(w, i, in), in, i + 1)

RECURSIVE StepFrom(_, _, _)
StepFrom(w, in, i) ==
    IF i > Len(w.entities) THEN w
    ELSE StepFrom(IF w.entities[i].enabled THEN Entity_step(w, i, in) ELSE w,
                  in, i + 1)

\* A loop that stops at the length the collection had when it began.
RECURSIVE StepFromTo(_, _, _, _)
StepFromTo(w, in, i, n) ==
    IF i > n THEN w
    ELSE StepFromTo(IF w.entities[i].enabled THEN Entity_step(w, i, in) ELSE w,
                    in, i + 1, n)

World_stepInitialLength(w, in) ==
    handleDeletions(StepFromTo(Log(w, "step", 0, 0), in, 1, Len(w.entities)))

World_step(w, in) ==
    handleDeletions(StepFrom(Log(w, "step", 0, 0), in, 1))

RECURSIVE HandleKindAll(_, _, _, _)
HandleKindAll(w, i, k, drawable) ==
    IF k > Len(w.entities[i].components) THEN w
    ELSE HandleKindAll(HandleComponent(w, i, k), i, k + 1, drawable)

RECURSIVE HandleKind(_, _, _, _)
HandleKind(w, i, k, drawable) ==
    IF k > Len(w.entities[i].components) THEN w
    ELSE HandleKind(
             IF (w.entities[i].components[k].kind = "Drawable") = drawable
             THEN HandleComponent(w, i, k) ELSE w,
             i, k + 1, drawable)

RECURSIVE HandleKindFrom(_, _, _)
HandleKindFrom(w, i, drawable) ==
    IF i > Len(w.entities) THEN w
    ELSE HandleKindFrom(HandleKind(w, i, 1, drawable), i + 1, drawable)

World_handleComponents(w) ==
    handleDeletions(HandleKindFrom(Log(w, "handleComponents", 0, 0), 1, FALSE))

World_handleCollisionsNoSweep(w, prs) ==
    CollisionHandler_handleCollisions(Log(w, "handleCollisions", 0, 0), prs)

World_handleCollisions(w, prs) ==
    handleDeletions(
        CollisionHandler_handleCollisions(Log(w, "handleCollisions", 0, 0), prs))

World_draw(w) ==
    Log(HandleKindFrom([Log(w, "draw", 0, 0) EXCEPT !.before = w.entities],
                       1, TRUE),
        "render", 0, 0)

\* worldLoop: the call that follows each call; requestAnimationFrame leads
\* back to World.step.
worldLoopCollisionsFirst(call) ==
    CASE call = "step" -> "handleCollisions"
      [] call = "handleCollisions" -> "handleComponents"
      [] call = "handleComponents" -> "draw"
      [] OTHER -> "step"

worldLoop(call) ==
    CASE call = "step" -> "handleComponents"
      [] call = "handleComponents" -> "handleCollisions"
      [] call = "handleCollisions" -> "draw"
      [] OTHER -> "step"

\* ---------------------------------------------------------- initial worlds
\* The entities a caller builds before the loop starts: every one is an
\* Entity with some fields and hooks set, as the buildX factories do.
With(e, solid, vx, step, collide, destroy, comps) ==
    [e EXCEPT !.solid = solid, !.velocity = Vec(vx * Unit, 0, 0),
              !.customStep = step, !.customCollide = collide,
              !.onDestroy = destroy, !.components = comps]

Template(n, id) ==
    CASE n = 1 -> With(Entity(id, "A", 1 * Unit, Unit,
                              Vec((ExitRight - 2) * Unit, 0, 0)),
                       TRUE, 1, "null", "noop", "null",
                       <<Drawable, TextDrawable>>)
      [] n = 2 -> With(Entity(id, "B", 2 * Unit, Unit,
                              Vec((ExitRight - 1) * Unit, 0, 0)),
                       TRUE, 0, "null", "noop", "set", <<Drawable>>)
      [] n = 3 -> With(Entity(id, "B", 1 * Unit, Unit,
                              Vec((ExitRight - 1) * Unit, 0, 0)),
                       TRUE, 0, "null", "destroy", "set",
                       <<TextDrawable, Drawable>>)
      [] n = 4 -> With(Entity(id, "A", 1 * Unit, Unit,
                              Vec((ExitRight) * Unit, 0, 0)),
                       TRUE, 1, "log", "null", "set", <<Drawable>>)
      [] n = 5 -> With(Entity(id, "B", 1 * Unit, Unit,
                              Vec((ExitRight - 1) * Unit, 0, 0)),
                       FALSE, 0, "null", "noop", "null", <<Drawable>>)
      [] OTHER -> With(Entity(id, "B", 1 * Unit, Unit,
                              Vec((ExitLeft) * Unit, 0, 0)),
                       TRUE, -1, "log", "null", "null", <<Drawable>>)

TemplateNumbers == 1..6

Worlds ==
    UNION {{[i \in 1..n |-> Template(f[i], i)] : f \in [1..n -> TemplateNumbers]}
           : n \in 1..MaxEntities}

PairTables ==
    {<<>>,
     [t \in {"A"} |-> <<"B">>],
     [t \in {"B"} |-> <<"A">>],
     [t \in {"A", "B"} |-> IF t = "A" THEN <<"B">> ELSE <<"A">>]}

\* Each Drawable's constructor adds its mesh to the scene.
Models(ents) ==
    {<<ents[i].id, k>> : i \in DOMAIN ents, k \in 1..2} \cap
    {m \in (1..Len(ents)) \X (1..2) :
        /\ m[2] <= Len(ents[m[1]].components)
        /\ ents[m[1]].components[m[2]].kind = "Drawable"}

NoCall == [fn |-> "none", a |-> 0, b |-> 0, value |-> FALSE]

Init ==
    /\ entities \in Worlds
    /\ pairs \in PairTables
    /\ inputs = <<>>
    /\ scene = Models(entities)
    /\ pc = "step"
    /\ events = <<>>
    /\ before = entities
    /\ ticks = 0
    /\ ret = NoCall

\* ---------------------------------------------------------------- actions
Run(w) ==
    /\ entities' = w.entities
    /\ scene' = w.scene
    /\ events' = w.events
    /\ before' = w.before

\* rnd holds the values Math.random returns during the call (none here).
Current == [entities |-> entities, scene |-> scene, events |-> events,
            before |-> before, rnd |-> <<>>]

Fresh == [Current EXCEPT !.events = <<>>]

pressKeyAlone(key) ==
    /\ pc = "step"
    /\ inputs' = [k \in {key} |-> TRUE]
    /\ UNCHANGED <<entities, pairs, scene, pc, events, before, ticks, ret>>

pressKey(key) ==
    /\ pc = "step"
    /\ inputs' = [k \in DOMAIN inputs \cup {key} |->
                      IF k = key THEN TRUE ELSE inputs[k]]
    /\ UNCHANGED <<entities, pairs, scene, pc, events, before, ticks, ret>>

releaseKey(key) ==
    /\ pc = "step"
    /\ inputs' = [k \in DOMAIN inputs \cup {key} |->
                      IF k = key THEN FALSE ELSE inputs[k]]
    /\ UNCHANGED <<entities, pairs, scene, pc, events, before, ticks, ret>>

\* What Math.random can return to each builder that builds a log in this
\* step: Math.floor(Math.random() * 4) for the width of the log and
\* Math.floor(Math.random() * 6) for the gap behind it.
Draws ==
    [{entities[i].id : i \in {n \in DOMAIN entities :
                                 /\ entities[n].customStep = "logBuilder"
                                 /\ entities[n].enabled
                                 /\ entities[n].properties.stepsToNext <= 1}}
        -> [width : 0..3, gap : 0..5]]

\* The number of ticks explored: a world with the frog is followed for as
\* long as a jump and its consequences take, a world of nothing but logs,
\* vehicles and turtles for as long as they take to cross the field.
TickLimit ==
    IF \E i \in DOMAIN entities : entities[i].type = "frog"
    THEN MaxFrogTicks
    ELSE IF /\ entities # <<>>
            /\ \A i \in DOMAIN entities :
                   entities[i].type \in {"log", "vehicle", "turtle"}
    THEN MaxLaneTicks
    ELSE MaxTicks

Step ==
    /\ pc = "step"
    /\ ticks < TickLimit
    /\ \E r \in Draws : Run(World_step([Fresh EXCEPT !.rnd = r], inputs))
    /\ pc' = worldLoop("step")
    /\ UNCHANGED <<inputs, pairs, ticks, ret>>

HandleComponents ==
    /\ pc = "handleComponents"
    /\ Run(World_handleComponents(Current))
    /\ pc' = worldLoop("handleComponents")
    /\ UNCHANGED <<inputs, pairs, ticks, ret>>

HandleCollisions ==
    /\ pc = "handleCollisions"
    /\ Run(World_handleCollisions(Current, pairs))
    /\ pc' = worldLoop("handleCollisions")
    /\ UNCHANGED <<inputs, pairs, ticks, ret>>

Draw ==
    /\ pc = "draw"
    /\ Run(World_draw(Current))
    /\ pc' = worldLoop("draw")
    /\ ticks' = ticks + 1
    /\ UNCHANGED <<inputs, pairs, ret>>

Next ==
    \/ \E key \in Keys : pressKey(key)
    \/ \E key \in Keys : releaseKey(key)
    \/ Step
    \/ HandleComponents
    \/ HandleCollisions
    \/ Draw

Spec == Init /\ [][Next]_vars

\* ------------------------------------------------ geometry specification
\* Two entities of every size and position within the bounds; the action
\* calls a.collidesWith(b) and keeps the result in ret.
GeomEntities(id) ==
    {Entity(id, "A", width, height, Vec(x, y, 0)) :
        width \in 0..MaxSize, height \in 0..MaxSize,
        x \in 0..MaxCoord, y \in 0..MaxCoord}

InitGeom ==
    /\ entities \in {<<a, b>> : a \in GeomEntities(1), b \in GeomEntities(2)}
    /\ pairs = <<>>
    /\ inputs = <<>>
    /\ scene = {}
    /\ pc = "step"
    /\ events = <<>>
    /\ before = entities
    /\ ticks = 0
    /\ ret = NoCall

CallCollidesWith(i, j) ==
    /\ ret' = [fn |-> "collidesWith", a |-> i, b |-> j,
               value |-> collidesWith(entities[i], entities[j])]
    /\ UNCHANGED <<entities, inputs, pairs, scene, pc, events, before, ticks>>

NextGeom == \E i \in DOMAIN entities, j \in DOMAIN entities : CallCollidesWith(i, j)

SpecGeom == InitGeom /\ [][NextGeom]_vars

\* ------------------------------------------------------ reading the events
MarkerOps == {"step", "handleDeletions", "handleComponents",
              "handleCollisions", "draw", "render"}

IsMarker(ev) == ev.op \in MarkerOps

Pipeline == <<"step", "handleDeletions", "handleComponents", "handleDeletions",
              "handleCollisions", "handleDeletions", "draw", "render">>

\* The marker that opened the part of the tick event k belongs to.
PhaseOf(k) ==
    LET ms == {m \in 1..k : IsMarker(events[m])}
    IN  events[CHOOSE m \in ms : \A n \in ms : n <= m].op

AllowedIn(phase) ==
    CASE phase = "step" ->
             {"step", "handle", "customStep", "move", "destroy",
              "destroyComponent"}
      [] phase = "handleDeletions" -> {"handleDeletions", "splice"}
      [] phase = "handleComponents" -> {"handleComponents", "handle"}
      [] phase = "handleCollisions" ->
             {"handleCollisions", "overlap", "collide", "destroy",
              "destroyComponent"}
      [] phase = "draw" -> {"draw", "handle"}
      [] OTHER -> {"render"}

Count(ev) == Cardinality({k \in DOMAIN events : events[k] = ev})

\* The entity of the last sweep's (or draw's) input that has this id.
Was(id) == before[CHOOSE i \in DOMAIN before : before[i].id = id]

NotMarked(e) == ~e.markedForDeletion

\* Ids destroyed by a collide hook in this tick.
MarkedInCollisions ==
    {events[k].self : k \in {n \in DOMAIN events :
        events[n].op = "destroy" /\ PhaseOf(n) = "handleCollisions"}}

DrawHandled(id) ==
    \E k \in DOMAIN events :
        events[k].op = "handle" /\ events[k].self = id /\ PhaseOf(k) = "draw"

\* The events of the visit that event k ("overlap") opened.
VisitOf(k) ==
    {m \in DOMAIN events :
        m > k /\ \A n \in (k + 1)..m :
                     events[n].op \notin {"overlap", "handleDeletions"}}

\* ----------------------------------------------------------------- claims

\* C1: every tick runs step, sweep, non-visual components, sweep,
\* collisions, sweep, visual components and present, in this order and with
\* nothing else in between; a tick is complete before the next one starts.
C1_PipelineOrder ==
    LET m == SelectSeq(events, IsMarker)
    IN  /\ Len(m) <= Len(Pipeline)
        /\ \A k \in DOMAIN m : m[k].op = Pipeline[k]
        /\ events # <<>> => events[1].op = "step"
        /\ \A k \in DOMAIN events : events[k].op \in AllowedIn(PhaseOf(k))
        /\ pc = "step" => Len(m) = (IF ticks = 0 THEN 0 ELSE Len(Pipeline))
        /\ pc = "handleComponents" => Len(m) = 2
        /\ pc = "handleCollisions" => Len(m) = 4
        /\ pc = "draw" => Len(m) = 6

C1_Witness ==
    /\ ticks = 2
    /\ pc = "step"
    /\ Len(SelectSeq(events, IsMarker)) = Len(Pipeline)
    /\ \E k \in DOMAIN events : events[k].op = "collide"
    /\ \E k \in DOMAIN events : events[k].op = "splice"

\* C2 (as claimed): with the only rule A -> B and one solid A overlapping
\* one solid B, a handleCollisions call invokes A's collide hook exactly once,
\* with B, and never B's.
C2_DispatchedOnce ==
    (pc = "draw" /\ DOMAIN pairs = {"A"} /\ pairs["A"] = <<"B">>
        /\ Len(before) = 2)
    => \A i \in DOMAIN before, j \in DOMAIN before :
           LET a == before[i]
               b == before[j]
           IN  (/\ a.type = "A" /\ b.type = "B" /\ a.solid /\ b.solid
                /\ a.customCollide = "noop"
                /\ a.position.x < b.position.x + b.width
                /\ b.position.x < a.position.x + a.width
                /\ a.position.y < b.position.y + b.height
                /\ b.position.y < a.position.y + a.height)
               => /\ Count(Ev("collide", a.id, b.id)) = 1
                  /\ \A k \in DOMAIN events :
                         ~(events[k].op = "collide" /\ events[k].self = b.id)

C4_SweepExact ==
    /\ pc \in {"handleComponents", "handleCollisions", "draw"}
       => /\ entities = SelectSeq(before, NotMarked)
          /\ \A i \in DOMAIN entities : ~entities[i].markedForDeletion
    /\ (pc = "step" /\ ticks > 0)
       => /\ Len(entities) = Len(before)
          /\ \A i \in DOMAIN entities : entities[i].id = before[i].id

C4_Witness ==
    /\ pc \in {"handleComponents", "draw"}
    /\ Len(before) >= 3
    /\ \E i \in 1..(Len(before) - 1) :
           before[i].markedForDeletion /\ before[i + 1].markedForDeletion
    /\ Len(entities) = 1

\* C5 (as claimed): when an entity with an onDestroy hook is destroyed,
\* destroy() runs on each of its components and then its onDestroy hook is
\* invoked once, before the entity leaves the world.
C5_OnDestroyInvoked ==
    \A k \in DOMAIN events :
        (/\ events[k].op = "splice"
         /\ Was(events[k].self).onDestroy # "null")
        => LET id == events[k].self
               hook == {m \in 1..k : events[m] = Ev("onDestroy", id, 0)}
           IN  /\ Cardinality(hook) = 1
               /\ \A m \in hook, n \in DOMAIN events :
                      (events[n].op = "destroyComponent" /\ events[n].self = id)
                      => n < m

\* C6: handleCollisions never invokes the collide hook of a non-solid entity
\* and never passes a non-solid entity to a collide hook.
C6_NonSolidNeverCollides ==
    pc = "draw"
    => \A k \in DOMAIN events :
           events[k].op \in {"collide", "overlap"}
           => Was(events[k].self).solid /\ Was(events[k].arg).solid

C6_Witness ==
    /\ pc = "draw"
    /\ \E i \in DOMAIN before, j \in DOMAIN before :
           /\ ~before[i].solid /\ before[j].solid
           /\ before[i].customCollide # "null"
           /\ before[j].customCollide # "null"
           /\ before[i].position = before[j].position
           /\ Reacts(pairs, before[i].type, before[j].type)
           /\ Reacts(pairs, before[j].type, before[i].type)
    /\ \E k \in DOMAIN events : events[k].op = "collide"

\* C7: in every visit of an overlapping pair both directions are looked up:
\* each entity whose type reacts to the other's has its hook invoked in that
\* visit, also after the other hook fired; a hook is invoked only for a
\* registered direction.
C7_BothDirections ==
    pc = "draw"
    => /\ \A k \in DOMAIN events :
              events[k].op = "overlap"
              => LET x == Was(events[k].self)
                     y == Was(events[k].arg)
                     Fired(u, v) ==
                         Cardinality({m \in VisitOf(k) :
                             events[m] = Ev("collide", u.id, v.id)})
                     Due(u, v) ==
                         IF Reacts(pairs, u.type, v.type)
                            /\ u.customCollide # "null" THEN 1 ELSE 0
                 IN  /\ Fired(x, y) = Due(x, y)
                     /\ Fired(y, x) = Due(y, x)
       /\ \A k \in DOMAIN events :
              events[k].op = "collide"
              => LET t == Was(events[k].self).type
                 IN  /\ t \in DOMAIN pairs
                     /\ \E n \in DOMAIN pairs[t] :
                            pairs[t][n] = Was(events[k].arg).type

C7_Witness ==
    /\ pc = "draw"
    /\ DOMAIN pairs = {"A", "B"}
    /\ \E k \in DOMAIN events :
           /\ events[k] = Ev("overlap", 1, 2)
           /\ k + 2 \in DOMAIN events
           /\ events[k + 1] = Ev("collide", 1, 2)
           /\ events[k + 2] = Ev("collide", 2, 1)

C7_WitnessOneWay ==
    /\ pc = "draw"
    /\ DOMAIN pairs = {"A"}
    /\ \E k \in DOMAIN events :
           /\ events[k].op = "overlap"
           /\ Was(events[k].self).type = "B"
           /\ Was(events[k].self).customCollide # "null"
           /\ Was(events[k].arg).type = "A"

\* ------------------------------------------------- claims on collidesWith
Called == ret.fn = "collidesWith"

ZeroSize(e) == e.width = 0 /\ e.height = 0

\* The point of a zero-size entity lies strictly inside e's rectangle.
StrictlyInside(z, e) ==
    /\ e.position.x < z.position.x /\ z.position.x < e.position.x + e.width
    /\ e.position.y < z.position.y /\ z.position.y < e.position.y + e.height

\* The closed rectangles meet, and only along a side or at a corner: one lies
\* entirely on one side of a line that carries an edge of both.
SharesOnlyBorder(a, b) ==
    LET ax1 == a.position.x
        ax2 == a.position.x + a.width
        ay1 == a.position.y
        ay2 == a.position.y + a.height
        bx1 == b.position.x
        bx2 == b.position.x + b.width
        by1 == b.position.y
        by2 == b.position.y + b.height
    IN  /\ ax1 <= bx2 /\ bx1 <= ax2 /\ ay1 <= by2 /\ by1 <= ay2
        /\ ax2 = bx1 \/ bx2 = ax1 \/ ay2 = by1 \/ by2 = ay1

\* C8 (as claimed): a zero-size entity never collides, in either direction,
\* with any entity, itself included.
C8_ZeroSizeNeverCollides ==
    (Called /\ (ZeroSize(entities[ret.a]) \/ ZeroSize(entities[ret.b])))
    => ret.value = FALSE

\* C8 (amended): a zero-size entity collides with an entity e, in both
\* directions, exactly when its point lies strictly inside e's rectangle; so
\* it never collides with itself or with another zero-size entity.
C8_ZeroSizeCollidesIffInside ==
    Called
    => LET a == entities[ret.a]
           b == entities[ret.b]
       IN  /\ ZeroSize(a) => ret.value = StrictlyInside(a, b)
           /\ ZeroSize(b) => ret.value = StrictlyInside(b, a)
           /\ (ZeroSize(a) /\ ZeroSize(b)) => ret.value = FALSE
           /\ (ZeroSize(a) /\ ret.a = ret.b) => ret.value = FALSE

C8_Witness ==
    /\ Called
    /\ ZeroSize(entities[ret.a])
    /\ ~ZeroSize(entities[ret.b])
    /\ ret.value = TRUE

\* C9: two entities whose rectangles share only an edge or a corner do not
\* collide, whichever of them is asked.
C9_TouchingNeverCollides ==
    (Called /\ SharesOnlyBorder(entities[ret.a], entities[ret.b]))
    => ret.value = FALSE

C9_Witness ==
    /\ Called
    /\ ret.a # ret.b
    /\ entities[ret.a].width = 1 /\ entities[ret.a].height = 1
    /\ entities[ret.b].width = 1 /\ entities[ret.b].height = 1
    /\ entities[ret.a].position = Vec(0, 0, 0)
    /\ entities[ret.b].position = Vec(1, 0, 0)
    /\ ret.value = FALSE

\* C10: a.collidesWith(b) equals b.collidesWith(a).
C10_Symmetric ==
    Called => ret.value = collidesWith(entities[ret.b], entities[ret.a])

C10_Witness ==
    /\ Called
    /\ ret.a # ret.b
    /\ entities[ret.a].width # entities[ret.b].width
    /\ entities[ret.a].position # entities[ret.b].position
    /\ ret.value = TRUE

\* -------------------------------------------------- entity specification
\* One entity of every size, position, velocity, step hook and component
\* list within the bounds; the actions call getBounds() and step(inputs) on
\* it.  ret.of is the entity as it was when the call was made.
Velocities == {Vec(0, 0, 0), Vec(1, 0, 0), Vec(0, -1, 1), Vec(2, 1, -1)}

EntityInputs(id) ==
    {[Entity(id, "A", width, height, position)
         EXCEPT !.velocity = velocity, !.customStep = step,
                !.components = comps] :
        width \in 0..MaxSize, height \in 0..MaxSize,
        position \in {Vec(x, y, z) : x \in 0..MaxCoord, y \in 0..MaxCoord,
                                     z \in 0..MaxCoord},
        velocity \in Velocities,
        step \in {"null", "noop", "log"},
        comps \in {<<>>, <<TextDrawable, Drawable>>}}

InitEntity ==
    /\ entities \in {<<e>> : e \in EntityInputs(1)}
    /\ pairs = <<>>
    /\ inputs = <<>>
    /\ scene = Models(entities)
    /\ pc = "step"
    /\ events = <<>>
    /\ before = entities
    /\ ticks = 0
    /\ ret = NoCall

CallGetBounds(i) ==
    /\ ret' = [fn |-> "getBounds", a |-> i, b |-> 0,
               value |-> getBounds(entities[i]), of |-> entities[i]]
    /\ UNCHANGED <<entities, inputs, pairs, scene, pc, events, before, ticks>>

CallStep(i) ==
    /\ ticks < MaxTicks
    /\ Run(Entity_step(Fresh, i, inputs))
    /\ ret' = [fn |-> "step", a |-> i, b |-> 0, value |-> FALSE,
               of |-> entities[i]]
    /\ ticks' = ticks + 1
    /\ UNCHANGED <<inputs, pairs, pc>>

NextEntity ==
    \/ \E i \in DOMAIN entities : CallGetBounds(i)
    \/ \E i \in DOMAIN entities : CallStep(i)

SpecEntity == InitEntity /\ [][NextEntity]_vars

\* C11: getBounds() is exactly (x, y, x + width, y + height), whatever z is;
\* after the entity moved, its bounds are the former bounds shifted by the
\* move and as wide and as high as before.
C11_BoundsExact ==
    /\ ret.fn = "getBounds"
       => ret.value = [x1 |-> ret.of.position.x, y1 |-> ret.of.position.y,
                       x2 |-> ret.of.position.x + ret.of.width,
                       y2 |-> ret.of.position.y + ret.of.height]
    /\ ret.fn = "step"
       => LET was == getBounds(ret.of)
              now == getBounds(entities[ret.a])
              dx == entities[ret.a].position.x - ret.of.position.x
              dy == entities[ret.a].position.y - ret.of.position.y
          IN  /\ now.x1 = was.x1 + dx /\ now.x2 = was.x2 + dx
              /\ now.y1 = was.y1 + dy /\ now.y2 = was.y2 + dy
              /\ now.x2 - now.x1 = ret.of.width
              /\ now.y2 - now.y1 = ret.of.height

C11_Witness ==
    /\ ret.fn = "step"
    /\ ret.of.position.z # 0
    /\ entities[ret.a].position.z # ret.of.position.z
    /\ entities[ret.a].position.x # ret.of.position.x
    /\ entities[ret.a].position.y # ret.of.position.y
    /\ ret.of.width = 1 /\ ret.of.height = 2

\* C12: for an entity without a custom step hook, step adds the velocity to
\* the position componentwise and leaves velocity, size, type, flags and
\* hooks as they were.
C12_DefaultMotion ==
    (ret.fn = "step" /\ ret.of.customStep = "null")
    => LET e == entities[ret.a]
           o == ret.of
       IN  /\ e.position.x = o.position.x + o.velocity.x
           /\ e.position.y = o.position.y + o.velocity.y
           /\ e.position.z = o.position.z + o.velocity.z
           /\ e.velocity = o.velocity
           /\ e.width = o.width /\ e.height = o.height /\ e.type = o.type
           /\ e.solid = o.solid /\ e.enabled = o.enabled
           /\ e.markedForDeletion = o.markedForDeletion
           /\ e.properties = o.properties
           /\ e.customStep = o.customStep
           /\ e.customCollide = o.customCollide
           /\ e.onDestroy = o.onDestroy
           /\ Len(e.components) = Len(o.components)
           /\ Len(entities) = 1
           /\ scene = Models(<<o>>)

C12_Witness ==
    /\ ret.fn = "step"
    /\ ret.of.customStep = "null"
    /\ ret.of.velocity = Vec(1, 0, 0)
    /\ entities[ret.a].position.x = ret.of.position.x + 1
    /\ entities[ret.a].position.y = ret.of.position.y
    /\ entities[ret.a].position.z = ret.of.position.z

\* C13: step handles every component in insertion order and only then does
\* exactly one of two things: it invokes the custom step hook (and applies no
\* motion of its own), or, without a hook, it applies the default motion.
C13_HandleThenOne ==
    ret.fn = "step"
    => LET o == ret.of
           n == Len(o.components)
           after == {k \in DOMAIN events : k > n}
       IN  /\ Len(events) >= n + 1
           /\ \A k \in 1..n : events[k] = Ev("handle", o.id, k)
           /\ events[n + 1] = IF o.customStep # "null"
                              THEN Ev("customStep", o.id, 0)
                              ELSE Ev("move", o.id, 0)
           /\ \A k \in after :
                  k > n + 1 => events[k].op \notin {"handle", "customStep", "move"}
           /\ o.customStep = "noop" => entities[ret.a].position = o.position
           /\ \A k \in 1..n :
                  o.components[k].kind = "Drawable"
                  => entities[ret.a].components[k].model
                         = Vec(2 * o.position.x + o.width,
                               2 * o.position.y + o.height, 2 * o.position.z)

C13_Witness ==
    /\ ret.fn = "step"
    /\ ret.of.customStep = "noop"
    /\ ret.of.velocity # Vec(0, 0, 0)
    /\ Len(ret.of.components) = 2
    /\ events = <<Ev("handle", 1, 1), Ev("handle", 1, 2), Ev("customStep", 1, 0)>>

\* The handle events of the tick whose entity is in the list the last sweep
\* (or draw) began with, and the kind of the component each one handled.
Handles ==
    {k \in DOMAIN events :
        events[k].op = "handle" /\ events[k].self \in Ids(before)}

KindHandled(k) == Was(events[k].self).components[events[k].arg].kind

\* C14 as stated: a Drawable is handled only in World.draw and any other
\* component only in World.handleComponents.
C14_OnlyInOwnPhase ==
    \A k \in Handles :
        PhaseOf(k) = IF KindHandled(k) = "Drawable" THEN "draw"
                     ELSE "handleComponents"

\* C14 (amended): World.draw handles Drawables only and
\* World.handleComponents handles the other components only; the step phase
\* handles every component, of either kind, of each enabled entity once; no
\* component is handled in the collision phase or in a sweep.
C14_HandledByPhase ==
    /\ \A k \in DOMAIN events :
           events[k].op = "handle"
           => PhaseOf(k) \in {"step", "handleComponents", "draw"}
    /\ \A k \in Handles :
           /\ PhaseOf(k) = "draw" => KindHandled(k) = "Drawable"
           /\ PhaseOf(k) = "handleComponents" => KindHandled(k) # "Drawable"
    /\ pc = "handleComponents"
       => \A i \in DOMAIN before : \A c \in DOMAIN before[i].components :
              Count(Ev("handle", before[i].id, c))
                  = IF before[i].enabled THEN 1 ELSE 0

C14_Witness ==
    /\ pc = "step"
    /\ \E d \in Handles, t \in Handles, sd \in Handles, st \in Handles :
           /\ events[d].self = events[t].self
           /\ events[sd] = events[d] /\ events[st] = events[t]
           /\ KindHandled(d) = "Drawable" /\ PhaseOf(d) = "draw"
           /\ KindHandled(t) = "TextDrawable"
           /\ PhaseOf(t) = "handleComponents"
           /\ PhaseOf(sd) = "step" /\ PhaseOf(st) = "step"

\* ---------------------------------------------------- flags specification
\* Worlds of entities that overlap one another from the start: enabled and
\* disabled ones, with and without a collide hook.  The actions are those of
\* the game loop.
FlagTemplate(n, id) ==
    CASE n = 1 -> With(Entity(id, "A", Unit, Unit, Vec(0, 0, 0)),
                       TRUE, 1, "null", "destroy", "null",
                       <<Drawable, TextDrawable>>)
      [] n = 2 -> [With(Entity(id, "B", 2 * Unit, Unit,
                               Vec(Unit \div 2, 0, 0)),
                        TRUE, 1, "log", "noop", "null",
                        <<TextDrawable, Drawable>>)
                      EXCEPT !.enabled = FALSE]
      [] n = 3 -> [With(Entity(id, "B", 2 * Unit, Unit,
                               Vec(Unit \div 2, 0, 0)),
                        TRUE, 1, "null", "destroy", "null", <<Drawable>>)
                      EXCEPT !.enabled = FALSE]
      [] OTHER -> With(Entity(id, "A", 2 * Unit, Unit,
                              Vec(Unit \div 2, 0, 0)),
                       TRUE, 0, "null", "null", "null", <<TextDrawable>>)

FlagTemplateNumbers == 1..4

FlagWorlds ==
    UNION {{[i \in 1..n |-> FlagTemplate(f[i], i)] :
               f \in [1..n -> FlagTemplateNumbers]} : n \in 1..MaxEntities}

InitFlags ==
    /\ entities \in FlagWorlds
    /\ pairs \in PairTables
    /\ inputs = <<>>
    /\ scene = Models(entities)
    /\ pc = "step"
    /\ events = <<>>
    /\ before = entities
    /\ ticks = 0
    /\ ret = NoCall

SpecFlags == InitFlags /\ [][Next]_vars

Disabled == {i \in DOMAIN entities : ~entities[i].enabled}

\* The entity is in the collection after the call exactly as it was before.
Kept(i) == \E j \in DOMAIN entities' : entities'[j] = entities[i]

\* The events the call added to those of the tick.
Added(from) == {events'[k] : k \in {n \in DOMAIN events' : n > from}}

Overlapping(i, j) ==
    /\ i # j
    /\ entities[i].solid /\ entities[j].solid
    /\ collidesWith(entities[i], entities[j])

\* The table lists t2 among the types that t1 reacts to.
Registered(t1, t2) ==
    t1 \in DOMAIN pairs /\ \E n \in DOMAIN pairs[t1] : pairs[t1][n] = t2

Hooked(i, j) ==
    /\ Registered(entities[i].type, entities[j].type)
    /\ entities[i].customCollide # "null"

\* C15: World.step passes over an entity with enabled = false: none of its
\* components is handled there, its custom step is not invoked and it is left
\* as it was.  The entity is still scanned for collisions when solid, with its
\* reactions dispatched, and its components are still handled by
\* World.handleComponents and World.draw.
C15_DisabledSkipped ==
    [][/\ Step
          => \A i \in Disabled :
                 /\ Kept(i)
                 /\ \A ev \in Added(0) : ev.self # entities[i].id
       /\ HandleComponents
          => \A i \in Disabled : \A c \in DOMAIN entities[i].components :
                 (entities[i].components[c].kind # "Drawable")
                 <=> Ev("handle", entities[i].id, c) \in Added(Len(events))
       /\ HandleCollisions
          => \A i \in Disabled : \A j \in DOMAIN entities :
                 Overlapping(i, j)
                 => LET a == entities[i].id
                        b == entities[j].id
                        new == Added(Len(events))
                    IN  /\ Ev("overlap", a, b) \in new
                        /\ Ev("overlap", b, a) \in new
                        /\ Hooked(i, j) => Ev("collide", a, b) \in new
                        /\ Hooked(j, i) => Ev("collide", b, a) \in new
       /\ Draw
          => \A i \in Disabled : \A c \in DOMAIN entities[i].components :
                 (entities[i].components[c].kind = "Drawable")
                 <=> Ev("handle", entities[i].id, c) \in Added(Len(events))
      ]_vars

C15_Witness ==
    /\ pc = "step"
    /\ ticks > 0
    /\ \E i \in DOMAIN before, j \in DOMAIN before, d \in DOMAIN events,
          t \in DOMAIN events :
           /\ ~before[i].enabled /\ before[i].customStep = "log"
           /\ before[i].velocity.x # 0
           /\ before[i].position = Vec(Unit \div 2, 0, 0)
           /\ Count(Ev("collide", before[i].id, before[j].id)) > 0
           /\ Count(Ev("move", before[j].id, 0)) > 0
           /\ events[d] = Ev("handle", before[i].id, 2)
           /\ PhaseOf(d) = "draw"
           /\ events[t] = Ev("handle", before[i].id, 1)
           /\ PhaseOf(t) = "handleComponents"
           /\ Count(Ev("handle", before[i].id, 1)) = 1
           /\ Count(Ev("handle", before[i].id, 2)) = 1
           /\ Count(Ev("customStep", before[i].id, 0)) = 0

\* C18: handleCollisions leaves an entity as it was, and in the collection,
\* when for every solid entity it overlaps either no rule makes it react (its
\* type may have no entry in pairs at all) or it has no collide hook; when
\* that is so for every entity, the call changes nothing.
C18_SilentlyIgnored ==
    [][HandleCollisions
       => /\ \A i \in DOMAIN entities :
                 (\A j \in DOMAIN entities : Overlapping(i, j) => ~Hooked(i, j))
                 => Kept(i)
          /\ (\A i \in DOMAIN entities, j \in DOMAIN entities :
                  Overlapping(i, j) => ~Hooked(i, j))
             => (entities' = entities /\ scene' = scene)
      ]_vars

C18_Witness ==
    /\ pc = "draw"
    /\ entities = before
    /\ \E k \in DOMAIN events :
           /\ events[k].op = "overlap"
           /\ Was(events[k].self).customCollide = "destroy"
           /\ Was(events[k].self).type \notin DOMAIN pairs
           /\ Was(events[k].arg).type \in DOMAIN pairs
    /\ \E k \in DOMAIN events :
           /\ events[k].op = "overlap"
           /\ Was(events[k].self).customCollide = "null"
           /\ Registered(Was(events[k].self).type, Was(events[k].arg).type)
    /\ \A k \in DOMAIN events : events[k].op # "collide"

\* ----------------------------------------------------- frog specification
\* The frog of buildFrog with water tiles or a vehicle next to its start
\* square; the keys are w (87) and d (68).
jumpSpeed == 70

KeyD == 68

FrogKeys == {KeyW, KeyD}

buildFrog(id) ==
    [Entity(id, "frog", Unit, Unit, Vec(8 * Unit, 0, 0))
        EXCEPT !.customStep = "frog", !.customCollide = "frog",
               !.components = <<Drawable, TextDrawable>>,
               !.properties =
                   [passiveVelocity |-> Vec(0, 0, 0), passiveRef |-> 0,
                    jumpDir |-> "NONE",
                    targetSquare |-> [x |-> 0, y |-> 0],
                    jumpSpeed |-> jumpSpeed, jumpSteps |-> 0,
                    jumpProgress |-> 0, markedForDeath |-> FALSE,
                    lives |-> 3]]

buildWater(id, x, y) ==
    [Entity(id, "water", Unit, Unit, Vec(x * Unit, y * Unit, -2 * Unit))
        EXCEPT !.components = <<Drawable>>]

\* A vehicle of buildVehicle(y, speed, RIGHT) that has driven to x.
buildVehicle(id, x, y, speed) ==
    [Entity(id, "vehicle", Unit, Unit, Vec(x, y * Unit, 0))
        EXCEPT !.velocity = Vec(speed, 0, 0), !.customStep = "vehicle",
               !.components = <<Drawable>>]

FrogWorlds ==
    {<<buildFrog(1), buildWater(2, 8, 1)>>,
     <<buildFrog(1), buildVehicle(2, 8 * Unit, 1, 25)>>,
     <<buildFrog(1), buildWater(2, 8, 0), buildWater(3, 9, 0)>>}

FrogPairs ==
    [t \in {"frog"} |-> <<"vehicle", "crocodile", "water", "turtle", "log">>]

InitFrog ==
    /\ entities \in FrogWorlds
    /\ pairs = FrogPairs
    /\ inputs = <<>>
    /\ scene = Models(entities)
    /\ pc = "step"
    /\ events = <<>>
    /\ before = entities
    /\ ticks = 0
    /\ ret = NoCall

NextFrog ==
    \/ \E key \in FrogKeys : pressKey(key)
    \/ \E key \in FrogKeys : releaseKey(key)
    \/ Step
    \/ HandleComponents
    \/ HandleCollisions
    \/ Draw

SpecFrog == InitFrog /\ [][NextFrog]_vars

FrogIndex(ents) == CHOOSE i \in DOMAIN ents : ents[i].type = "frog"

FrogOf(ents) == ents[FrogIndex(ents)]

ResetSquare == Vec(8 * Unit, 0, 0)

\* The killFrog calls among the events the call added.
KillsAdded(from) ==
    Cardinality({k \in DOMAIN events' :
                    k > from /\ events'[k].op = "killFrog"})

FrogOverlaps(type) ==
    \E j \in DOMAIN entities :
        entities[j].type = type /\ Overlapping(FrogIndex(entities), j)

\* C16: a frog that is not jumping and overlaps a water tile (and nothing that
\* kills it) is marked for death when handleCollisions returns; a step that
\* finds the frog marked, not jumping and with zero passive velocity calls
\* killFrog exactly once; every step leaves the frog unmarked, and a step that
\* finds it unmarked does not call killFrog.
C16_MarkedThenKilledOnce ==
    [][LET f == FrogOf(entities)
           g == FrogOf(entities')
       IN  /\ (/\ HandleCollisions
               /\ f.properties.jumpDir = "NONE"
               /\ FrogOverlaps("water") /\ ~FrogOverlaps("vehicle"))
              => g.properties.markedForDeath
           /\ (/\ Step
               /\ f.properties.markedForDeath
               /\ f.properties.jumpDir = "NONE"
               /\ f.properties.passiveVelocity = Vec(0, 0, 0))
              => /\ KillsAdded(0) = 1
                 /\ g.properties.lives = f.properties.lives - 1
           /\ (Step /\ ~f.properties.markedForDeath) => KillsAdded(0) = 0
           /\ Step => ~g.properties.markedForDeath
      ]_vars

\* The frog jumped into the water, was killed by the next step, and a later
\* step has run without calling killFrog.
C16_Witness ==
    /\ pc = "handleComponents"
    /\ \A i \in DOMAIN entities : entities[i].type \in {"frog", "water"}
    /\ \A i \in DOMAIN entities :
           entities[i].type = "water"
           => ~collidesWith([FrogOf(entities) EXCEPT !.position = ResetSquare],
                            entities[i])
    /\ FrogOf(entities).properties.lives = 2
    /\ FrogOf(entities).position = ResetSquare
    /\ \A k \in DOMAIN events : events[k].op # "killFrog"
    /\ Count(Ev("customStep", FrogOf(entities).id, 0)) = 1

IsPressed(in, key) == key \in DOMAIN in /\ in[key] = TRUE

OthersUnchanged(key) ==
    \A o \in FrogKeys \ {key} :
        /\ (o \in DOMAIN inputs') = (o \in DOMAIN inputs)
        /\ IsPressed(inputs', o) = IsPressed(inputs, o)

\* C17: pressKey(k) makes k read as pressed and releaseKey(k) as not pressed,
\* and neither changes how another key reads; a key that never had an event
\* reads as not pressed; a step in which the frog is free to jump starts a
\* jump exactly when, and in the direction for which, the key reads as
\* pressed in the inputs the step is given.
C17_KeySnapshot ==
    [][/\ \A k \in FrogKeys :
              /\ pressKey(k) => (IsPressed(inputs', k) /\ OthersUnchanged(k))
              /\ releaseKey(k)
                 => (~IsPressed(inputs', k) /\ k \in DOMAIN inputs'
                     /\ OthersUnchanged(k))
       /\ LET f == FrogOf(entities)
              g == FrogOf(entities')
          IN  (/\ Step
               /\ f.properties.jumpDir = "NONE"
               /\ ~f.properties.markedForDeath)
              => g.properties.jumpDir =
                     IF IsPressed(inputs, KeyW) /\ f.position.y < 12 * Unit
                     THEN "UP"
                     ELSE IF IsPressed(inputs, KeyD)
                             /\ f.position.x < 16 * Unit
                     THEN "RIGHT"
                     ELSE "NONE"
      ]_vars

\* w was pressed and released again before the step, d is down: the jump that
\* has just started goes right.
C17_Witness ==
    /\ pc = "handleComponents"
    /\ KeyW \in DOMAIN inputs /\ inputs[KeyW] = FALSE
    /\ IsPressed(inputs, KeyD)
    /\ FrogOf(entities).properties.jumpDir = "RIGHT"
    /\ FrogOf(entities).properties.jumpProgress = 0
    /\ FrogOf(entities).velocity = Vec(jumpSpeed, 0, 0)

\* C19: handleCollisions tests each ordered pair against the positions of the
\* moment: once killFrog, called for the pair (frog, vehicle), has put the
\* frog back on its start square, the pair (vehicle, frog) visited later no
\* longer overlaps and the frog is killed once; when killFrog does not move
\* the frog (no life left), the later pair still overlaps and kills it again.
C19_LiveScan ==
    [][HandleCollisions
       => \A j \in DOMAIN entities :
              LET i == FrogIndex(entities)
                  f == entities[i]
                  g == FrogOf(entities')
                  v == entities[j]
                  new == Added(Len(events))
              IN  (/\ v.type = "vehicle"
                   /\ i < j
                   /\ Overlapping(i, j)
                   /\ ~collidesWith([f EXCEPT !.position = ResetSquare], v))
                  => /\ Ev("overlap", f.id, v.id) \in new
                     /\ IF f.properties.lives >= 1
                        THEN /\ KillsAdded(Len(events)) = 1
                             /\ g.properties.lives = f.properties.lives - 1
                             /\ g.position = ResetSquare
                             /\ Ev("overlap", v.id, f.id) \notin new
                        ELSE /\ KillsAdded(Len(events)) = 2
                             /\ g.properties.lives = f.properties.lives - 2
                             /\ g.position = f.position
                             /\ Ev("overlap", v.id, f.id) \in new
      ]_vars

C19_Witness ==
    /\ pc = "draw"
    /\ Len(entities) = 2
    /\ entities[1].type = "frog" /\ entities[2].type = "vehicle"
    /\ entities[1].position = ResetSquare
    /\ entities[1].velocity = Vec(0, jumpSpeed, 0)
    /\ entities[1].properties.lives = 2
    /\ Count(Ev("killFrog", 1, 0)) = 1
    /\ Count(Ev("overlap", 1, 2)) = 1
    /\ Count(Ev("overlap", 2, 1)) = 0
    /\ collidesWith([entities[1] EXCEPT !.position = Vec(8 * Unit, jumpSpeed, 0)],
                    entities[2])

\* The frog has no life left, is not moved by killFrog, and is killed by both
\* visits of the pair.
C19_WitnessNoReset ==
    /\ pc = "draw"
    /\ entities[1].type = "frog"
    /\ Count(Ev("killFrog", 1, 0)) = 2
    /\ Count(Ev("gameOver", 0, 0)) = 2

\* -------------------------------------------------- builder specification
\* Log builders as buildWorld creates them (rows 8 and 9), about to build
\* their first log, alone or in front of an entity that is already there.
buildLogBuilder(id, y, speed, direction, stepsToNext) ==
    [Entity(id, "log builder", 0, 0, Vec(0, 0, 0))
        EXCEPT !.solid = FALSE, !.customStep = "logBuilder",
               !.properties = [y |-> y, stepsToNext |-> stepsToNext,
                               speed |-> speed, direction |-> direction]]

BuilderWorlds ==
    {<<buildLogBuilder(1, 8, 20, "RIGHT", 1),
       buildLogBuilder(2, 9, 40, "LEFT", 2)>>} \cup
    UNION {{<<buildLogBuilder(1, 8, 20, "RIGHT", n)>>,
            <<buildLogBuilder(1, 9, 40, "LEFT", n),
              buildWater(2, 8, 7),
              [buildWater(3, 8, 8) EXCEPT !.enabled = FALSE]>>}
           : n \in 0..2}

InitBuilder ==
    /\ entities \in BuilderWorlds
    /\ pairs = FrogPairs
    /\ inputs = <<>>
    /\ scene = Models(entities)
    /\ pc = "step"
    /\ events = <<>>
    /\ before = entities
    /\ ticks = 0
    /\ ret = NoCall

SpecBuilder == InitBuilder /\ [][Next]_vars

IsStepped(ev) == ev.op \in {"customStep", "move"}

IsEnabled(e) == e.enabled

\* C20: World.step steps the enabled entities in the order of the
\* collection; a log that a builder appended during the call is stepped by
\* that same call, after the entities that were there, and has moved by its
\* velocity once when the call returns.
C20_AppendedIsStepped ==
    pc = "handleComponents"
    => LET stepped == SelectSeq(events, IsStepped)
           enabled == SelectSeq(before, IsEnabled)
       IN  /\ Len(stepped) = Len(enabled)
           /\ \A k \in DOMAIN stepped : stepped[k].self = enabled[k].id
           /\ \A k \in DOMAIN events :
                  events[k].op = "push"
                  => /\ \E m \in DOMAIN events :
                            m > k /\ events[m] = Ev("customStep", events[k].arg, 0)
                     /\ LET log == Was(events[k].arg)
                        IN  log.position.x =
                                (IF log.velocity.x > 0 THEN -log.width
                                 ELSE 17 * Unit) + log.velocity.x

C20_Witness ==
    /\ pc = "handleComponents"
    /\ Len(entities) = 4
    /\ entities[1].type = "log builder"
    /\ ~entities[3].enabled
    /\ entities[4].type = "log"
    /\ entities[4].position.x = 17 * Unit - 40
    /\ Count(Ev("push", 1, 4)) = 1
    /\ Count(Ev("customStep", 4, 0)) = 1
    /\ Count(Ev("move", 2, 0)) = 1
    /\ Count(Ev("move", 3, 0)) = 0

\* ----------------------------------------------------- kill specification
\* The frog with its three lives, or with none left, anywhere and in any
\* condition a kill can find it in; the action calls scripts.killFrog on it,
\* time after time.
KillInputs ==
    {[buildFrog(1) EXCEPT
         !.position = Vec(x * Unit, y * Unit, 0),
         !.properties.markedForDeath = marked,
         !.properties.jumpDir = jumpDir,
         !.properties.passiveVelocity = passive,
         !.properties.lives = lives] :
        lives \in {0, 3}, x \in 0..MaxCoord, y \in 0..MaxCoord, marked \in BOOLEAN,
        jumpDir \in {"NONE", "UP", "RIGHT"},
        passive \in {Vec(0, 0, 0), Vec(20, 0, 0)}}

InitKill ==
    /\ entities \in {<<e>> : e \in KillInputs}
    /\ pairs = FrogPairs
    /\ inputs = <<>>
    /\ scene = Models(entities)
    /\ pc = "step"
    /\ events = <<>>
    /\ before = entities
    /\ ticks = 0
    /\ ret = NoCall

\* ticks counts the calls.
CallKillFrog(i) ==
    /\ ticks < MaxKills
    /\ Run(killFrog(Fresh, i))
    /\ ret' = [fn |-> "killFrog", a |-> i, b |-> 0, value |-> FALSE,
               of |-> entities[i]]
    /\ ticks' = ticks + 1
    /\ UNCHANGED <<inputs, pairs, pc>>

NextKill == \E i \in DOMAIN entities : CallKillFrog(i)

SpecKill == InitKill /\ [][NextKill]_vars

\* C23: killFrog takes exactly one life and clears markedForDeath and
\* jumpDir; with lives >= 0 left it puts the frog at (8, 0, 0) with zero
\* passive velocity and does not invoke gameOver; otherwise it invokes
\* gameOver and leaves position (and passive velocity) alone.  From three
\* lives, gameOver is first invoked by the fourth kill.
C23_KillFrog ==
    ret.fn = "killFrog"
    => LET o == ret.of
           e == entities[ret.a]
           p == e.properties
       IN  /\ p.lives = o.properties.lives - 1
           /\ ~p.markedForDeath
           /\ p.jumpDir = "NONE"
           /\ Count(Ev("killFrog", o.id, 0)) = 1
           /\ IF p.lives >= 0
              THEN /\ e.position = Vec(8 * Unit, 0, 0)
                   /\ p.passiveVelocity = Vec(0, 0, 0)
                   /\ Count(Ev("gameOver", 0, 0)) = 0
              ELSE /\ e.position = o.position
                   /\ p.passiveVelocity = o.properties.passiveVelocity
                   /\ Count(Ev("gameOver", 0, 0)) = 1
           /\ e = [o EXCEPT !.position = e.position, !.properties = p]
           /\ p = [o.properties EXCEPT !.lives = p.lives,
                                       !.markedForDeath = FALSE,
                                       !.jumpDir = "NONE",
                                       !.passiveVelocity = p.passiveVelocity,
                                       !.passiveRef = p.passiveRef]
           /\ p.lives + ticks = 3
              => ((Count(Ev("gameOver", 0, 0)) > 0) <=> (ticks >= 4))

C23_Witness ==
    /\ ret.fn = "killFrog"
    /\ ticks = 4
    /\ entities[1].properties.lives = -1
    /\ Count(Ev("gameOver", 0, 0)) = 1
    /\ entities[1].position = Vec(8 * Unit, 0, 0)

\* The frog had moved on with no life left: the kill leaves it where it is.
C23_WitnessGameOver ==
    /\ ret.fn = "killFrog"
    /\ ticks = 1
    /\ entities[1].properties.lives = -1
    /\ entities[1].position = Vec(Unit, 2 * Unit, 0)
    /\ entities[1].properties.passiveVelocity = Vec(20, 0, 0)
    /\ Count(Ev("gameOver", 0, 0)) = 1

\* ---------------------------------------------------- lanes specification
\* Logs, vehicles and turtles as their builders spawn them, followed across
\* the field by the game loop alone.
spawnVehicle(id, y, speed, direction) ==
    [Entity(id, "vehicle", Unit, Unit,
            Vec(IF direction = "RIGHT" THEN -Unit ELSE 17 * Unit, y * Unit, 0))
        EXCEPT !.velocity = Vec(IF direction = "RIGHT" THEN speed ELSE -speed,
                                0, 0),
               !.customStep = "vehicle",
               !.components = <<Drawable>>]

\* buildTurtle(y, speed, direction, sinkPeriod), the i-th turtle of its group
\* (line 467).
spawnTurtle(id, y, speed, direction, sinkPeriod, i) ==
    [Entity(id, "turtle", Unit, Unit,
            Vec(IF direction = "RIGHT" THEN -Unit - i * Unit
                ELSE 17 * Unit + i * Unit, y * Unit, -Unit))
        EXCEPT !.velocity = Vec(IF direction = "RIGHT" THEN speed ELSE -speed,
                                0, 0),
               !.customStep = "turtle",
               !.components = <<Drawable>>,
               !.properties = [state |-> "floating", sinkPeriod |-> sinkPeriod,
                               stepsToSink |-> sinkPeriod, speed |-> speed]]

LaneWorlds ==
    {<<buildLog(1, 9, 40, "RIGHT", 0), spawnVehicle(2, 3, 30, "LEFT"),
       spawnTurtle(3, 7, 25, "LEFT", 30, 0)>>,
     <<buildLog(1, 9, 40, "LEFT", 3), spawnVehicle(2, 2, 25, "RIGHT"),
       spawnTurtle(3, 10, 25, "RIGHT", 60, 0),
       spawnTurtle(4, 10, 25, "RIGHT", 60, 1)>>}

InitLanes ==
    /\ entities \in LaneWorlds
    /\ pairs = FrogPairs
    /\ inputs = <<>>
    /\ scene = Models(entities)
    /\ pc = "step"
    /\ events = <<>>
    /\ before = entities
    /\ ticks = 0
    /\ ret = NoCall

NextLanes ==
    \/ Step
    \/ HandleComponents
    \/ HandleCollisions
    \/ Draw

\* The step requestAnimationFrame(worldLoop) schedules: the next of the four
\* calls of worldLoop runs, as long as the tick bound leaves one to run.  It
\* is enabled exactly when NextLanes is, and every step of NextLanes is one.
Scheduled ==
    /\ ~(pc = "step" /\ ticks >= TickLimit)
    /\ pc' = worldLoop(pc)

SpecLanes == InitLanes /\ [][NextLanes]_vars /\ WF_pc(Scheduled)

Movers == {"log", "vehicle", "turtle"}

LaneIds == 1..4

Present(id) == id \in Ids(entities)

Of(ents, id) == ents[CHOOSE i \in DOMAIN ents : ents[i].id = id]

\* x lies beyond the bound at which the entity leaves the field.
PastBound(e, x) ==
    \/ e.velocity.x > 0 /\ x > 18 * Unit
    \/ e.velocity.x < 0
       /\ x < (IF e.type = "log" THEN -Unit - e.width ELSE -2 * Unit)

\* C21: a log, vehicle or turtle keeps its x velocity; the step that moves it
\* past its exit bound destroys it (its Drawable's model leaves the scene) and
\* it is gone from world.entities when that World.step returns; no other step
\* and no other phase removes it; and every one of them is removed in the
\* end.
C21_RemovedPastBound ==
    /\ [][\A i \in DOMAIN entities :
              LET e == entities[i]
                  x == e.position.x + e.velocity.x
              IN  e.type \in Movers
                  => IF Step /\ PastBound(e, x)
                     THEN /\ e.id \notin Ids(entities')
                          /\ <<e.id, 1>> \in scene /\ <<e.id, 1>> \notin scene'
                          /\ Ev("destroy", e.id, 0) \in Added(0)
                     ELSE /\ e.id \in Ids(entities')
                          /\ <<e.id, 1>> \in scene'
                          /\ ~Of(entities', e.id).markedForDeletion
                          /\ Of(entities', e.id).velocity.x = e.velocity.x
                          /\ Of(entities', e.id).position.x =
                                 IF Step THEN x ELSE e.position.x
         ]_vars
    /\ <>[](\A i \in DOMAIN entities : entities[i].type \notin Movers)

\* The turtle has been swept in the step that took it past x = -2.
C21_Witness ==
    /\ pc = "handleComponents"
    /\ \E i \in DOMAIN before :
           /\ before[i].type = "turtle"
           /\ before[i].markedForDeletion
           /\ before[i].position.x < -2 * Unit
           /\ before[i].position.x - before[i].velocity.x >= -2 * Unit
           /\ ~Present(before[i].id)
           /\ <<before[i].id, 1>> \notin scene
    /\ ticks > 700

\* ------------------------------------------------------------------- C22
Turtles(ents) == {k \in DOMAIN ents : ents[k].type = "turtle"}

\* The vertical distance between the floating and the submerged depth.
Dive == -Unit - Submerged

\* C22: a turtle in the world alternates floating -> submerged -> floating.
\* While stepsToSink > 0 it keeps its state and its depth with velocity.z = 0
\* and counts one step down; from stepsToSink = 0 on it moves vertically,
\* down when floating and up when submerged; its state changes only in a
\* step that finds stepsToSink < 0 and takes z past -2.01 (floating) or -1
\* (submerged), and that step clamps z to that depth, sets velocity.z to 0
\* and resets stepsToSink to sinkPeriod; the vertical move never lasts more
\* than the steps the dive needs, and a turtle that stays in the world
\* always reaches the other state.
C22_TurtleCycle ==
    /\ [][\A i \in Turtles(entities) :
              LET e == entities[i]
                  p == e.properties
                  z == e.position.z + e.velocity.z
              IN  Step /\ e.id \in Ids(entities')
                  => LET f == Of(entities', e.id)
                         q == f.properties
                     IN  /\ q.sinkPeriod = p.sinkPeriod
                         /\ p.stepsToSink > 0
                            => /\ e.velocity.z = 0
                               /\ f.position.z = e.position.z
                               /\ q.state = p.state
                               /\ q.stepsToSink = p.stepsToSink - 1
                               /\ f.velocity.z =
                                      IF q.stepsToSink > 0 THEN 0
                                      ELSE IF p.state = "floating"
                                      THEN -p.speed ELSE p.speed
                         /\ p.stepsToSink >= 0 => q.state = p.state
                         /\ p.stepsToSink <= 0
                            => /\ e.velocity.z =
                                      IF p.state = "floating" THEN -p.speed
                                      ELSE p.speed
                               /\ q.state # p.state
                                  <=> /\ p.stepsToSink < 0
                                      /\ IF p.state = "floating"
                                         THEN z < Submerged ELSE z > -Unit
                               /\ q.state = p.state
                                  => /\ f.position.z = z
                                     /\ f.velocity.z = e.velocity.z
                                     /\ q.stepsToSink = p.stepsToSink - 1
                         /\ q.state # p.state
                            => /\ q.state = IF p.state = "floating"
                                            THEN "submerged" ELSE "floating"
                               /\ f.position.z = IF p.state = "floating"
                                                 THEN Submerged ELSE -Unit
                               /\ f.velocity.z = 0
                               /\ q.stepsToSink = p.sinkPeriod
         ]_vars
    /\ [](\A i \in Turtles(entities) :
              LET e == entities[i]
              IN  /\ e.properties.stepsToSink <= e.properties.sinkPeriod
                  /\ e.properties.stepsToSink * e.properties.speed >= -Dive)
    /\ \A id \in LaneIds :
           /\ (\E i \in Turtles(entities) :
                   /\ entities[i].id = id
                   /\ entities[i].properties.state = "floating")
              ~> (\A i \in Turtles(entities) :
                      entities[i].id = id
                      => entities[i].properties.state = "submerged")
           /\ (\E i \in Turtles(entities) :
                   /\ entities[i].id = id
                   /\ entities[i].properties.state = "submerged")
              ~> (\A i \in Turtles(entities) :
                      entities[i].id = id
                      => entities[i].properties.state = "floating")

\* A turtle has gone down and come up again.
C22_Witness ==
    /\ pc = "handleComponents"
    /\ ticks > 100
    /\ \E i \in Turtles(entities) : \E j \in Turtles(before) :
           /\ before[j].id = entities[i].id
           /\ before[j].properties.state = "floating"
           /\ before[j].position.z = -Unit
           /\ before[j].velocity.z = 0
           /\ before[j].properties.stepsToSink =
                  before[j].properties.sinkPeriod

\* ------------------------------------------------------------------- C24
\* The coordinate of position v on the axis of jump direction dir.
OnAxis(dir, v) == IF dir \in {"UP", "DOWN"} THEN v.y ELSE v.x

\* How far a jumping frog still is from its target square.
Remaining(f) ==
    Abs(OnAxis(f.properties.jumpDir, f.properties.targetSquare)
        - OnAxis(f.properties.jumpDir, f.position))

\* C24: the step of a jumping frog reads no key and no passive velocity: it
\* moves the frog by its jump velocity and either leaves the jump as it is,
\* one jumpSpeed closer to a target still ahead (so the jump ends after
\* finitely many steps), or ends it with the jump-axis coordinate equal to the
\* target's, velocity (0,0,0), z = 0 and jumpDir NONE; the step that ends a
\* jump starts none, whatever keys are down, and no such step kills the frog.
C24_JumpRuns ==
    [][LET f == FrogOf(entities)
           g == FrogOf(entities')
           p == f.properties
           q == g.properties
           dir == p.jumpDir
           x == f.position.x + f.velocity.x
           y == f.position.y + f.velocity.y
       IN  (Step /\ dir # "NONE")
           => /\ KillsAdded(0) = 0
              /\ q.targetSquare = p.targetSquare
              /\ q.passiveVelocity = p.passiveVelocity
              /\ q.lives = p.lives
              /\ q.jumpProgress = p.jumpProgress + 1
              /\ f.velocity =
                     CASE dir = "UP" -> Vec(0, p.jumpSpeed, 0)
                       [] dir = "DOWN" -> Vec(0, -p.jumpSpeed, 0)
                       [] dir = "LEFT" -> Vec(-p.jumpSpeed, 0, 0)
                       [] OTHER -> Vec(p.jumpSpeed, 0, 0)
              /\ \/ /\ q.jumpDir = dir
                    /\ g.velocity = f.velocity
                    /\ g.position.x = x /\ g.position.y = y
                    /\ Remaining(g) = Remaining(f) - p.jumpSpeed
                    /\ Remaining(g) > 0
                 \/ /\ q.jumpDir = "NONE"
                    /\ Remaining(f) <= p.jumpSpeed
                    /\ OnAxis(dir, g.position) = OnAxis(dir, p.targetSquare)
                    /\ IF dir \in {"UP", "DOWN"} THEN g.position.x = x
                       ELSE g.position.y = y
                    /\ g.position.z = 0
                    /\ g.velocity = Vec(0, 0, 0)
      ]_vars

\* The frog has landed on the square above its start square with the jump
\* key still down.
C24_Witness ==
    /\ pc = "handleComponents"
    /\ Pressed(inputs, KeyW)
    /\ FrogOf(entities).properties.jumpDir = "NONE"
    /\ FrogOf(entities).properties.jumpProgress = 15
    /\ FrogOf(entities).position = Vec(8 * Unit, Unit, 0)
    /\ FrogOf(entities).velocity = Vec(0, 0, 0)
    /\ FrogOf(entities).properties.lives = 3

\* ------------------------------------------------------------------- C25
\* C25: a collision phase leaves the frog marked for death only if the frog
\* is not jumping, and leaves a frog that jumps through it unmarked; every
\* step ends with the flag down, also the step that kills the frog; a step
\* kills only a frog it finds marked, and the flag it finds was raised by the
\* collision phase just before it, because the flag is down from the end of
\* a step to the next collision phase and nothing between a collision phase
\* and the next step touches it.
C25_MarkLastsOneTick ==
    /\ [][LET f == FrogOf(entities)
              g == FrogOf(entities')
          IN  /\ HandleCollisions
                 => /\ g.properties.markedForDeath
                       => g.properties.jumpDir = "NONE"
                    /\ (f.properties.jumpDir # "NONE" /\ KillsAdded(0) = 0)
                       => ~g.properties.markedForDeath
              /\ Step
                 => /\ ~g.properties.markedForDeath
                    /\ KillsAdded(0) > 0
                       => /\ f.properties.markedForDeath
                          /\ KillsAdded(0) = 1
              /\ ~(Step \/ HandleCollisions)
                 => g.properties.markedForDeath = f.properties.markedForDeath
         ]_vars
    /\ [](pc \in {"handleComponents", "handleCollisions"}
          => ~FrogOf(entities).properties.markedForDeath)

\* The step has killed the frog that the collision phase before it marked,
\* and has left the flag down.
C25_Witness ==
    /\ pc = "handleComponents"
    /\ Count(Ev("killFrog", FrogOf(entities).id, 0)) = 1
    /\ ~FrogOf(entities).properties.markedForDeath
    /\ FrogOf(entities).properties.lives = 2
    /\ FrogOf(before).properties.lives = 2

\* ------------------------------------------------------------------- C27
\* C27: one handleCollisions call takes at most one life from the frog,
\* whatever overlaps it and however many lives it has left.
C27_AtMostOneLife ==
    [][HandleCollisions
       => /\ FrogOf(entities').properties.lives
                 >= FrogOf(entities).properties.lives - 1
          /\ KillsAdded(Len(events)) <= 1
      ]_vars

\* ---------------------------------------------------- river specification
\* The frog in mid-game, on or next to a log, a turtle or a vehicle.  The
\* lane entity of each world is the one its builder spawned, after the
\* number of steps that brings it to where the frog meets it; the frog has
\* come there by jumps and by riding, which leave its x at any multiple of
\* the lane speeds' common divisor.
KeyA == 65

KeyS == 83

RiverKeys == {KeyW, KeyA, KeyS, KeyD}

MaxRiverTicks == 2

\* The entity n steps after it was spawned.
RECURSIVE After(_, _)
After(e, n) ==
    IF n = 0 THEN e
    ELSE IF n = 1
    THEN customStep([entities |-> <<e>>, scene |-> Models(<<e>>),
                     events |-> <<>>, before |-> <<>>, rnd |-> <<>>],
                    1, <<>>).entities[1]
    ELSE CHOOSE r \in {After(half, n - n \div 2) :
                          half \in {After(e, n \div 2)}} : TRUE

\* The frog after the collision phase that found it on the platform, over
\* water: it has landed on row y by a vertical jump some steps ago.
Riding(x, y, z, platform) ==
    [buildFrog(1) EXCEPT
        !.position = Vec(x, y * Unit, z),
        !.properties.passiveVelocity = platform.velocity,
        !.properties.passiveRef = platform.id,
        !.properties.markedForDeath = TRUE,
        !.properties.targetSquare = [x |-> Round(x), y |-> y * Unit],
        !.properties.jumpSteps = (Unit * Unit) \div jumpSpeed,
        !.properties.jumpProgress = 15]

\* The frog jumpProgress steps into a jump up to row y.
JumpingUp(x, y, jumpProgress) ==
    [buildFrog(1) EXCEPT
        !.position = Vec(x, (y - 1) * Unit + jumpProgress * jumpSpeed,
                         JumpHeight(jumpProgress)),
        !.velocity = Vec(0, jumpSpeed, 0),
        !.properties.jumpDir = "UP",
        !.properties.targetSquare = [x |-> Round(x), y |-> y * Unit],
        !.properties.jumpSteps = (Unit * Unit) \div jumpSpeed,
        !.properties.jumpProgress = jumpProgress]

RiverWorlds ==
    LET logGone == After(buildLog(3, 9, 40, "RIGHT", 0), 500)
        logFar == After(buildLog(3, 9, 40, "RIGHT", 0), 425)
        turtleNear == After(spawnTurtle(3, 7, 25, "LEFT", 300, 0), 690)
        turtleSinks == After(spawnTurtle(3, 10, 25, "LEFT", 30, 0), 313)
        turtleSunk == After(spawnTurtle(3, 10, 25, "LEFT", 30, 0), 354)
        turtleRises == After(spawnTurtle(3, 10, 25, "LEFT", 30, 0), 384)
        turtleDown == After(spawnTurtle(3, 10, 25, "LEFT", 30, 0), 375)
        vehicle == After(spawnVehicle(3, 1, 15, "LEFT"), 600)
    IN  {<<Riding(17500, 9, 0, logGone), buildWater(2, 17, 9), logGone>>,
         <<Riding(15700, 9, 0, logFar), buildWater(2, 16, 9), logFar>>,
         <<Riding(300, 7, 0, turtleNear), buildWater(2, 0, 7), turtleNear>>,
         <<Riding(9000, 10, 0, turtleSinks), buildWater(2, 9, 10),
           turtleSinks>>,
         <<Riding(8000, 10, -Unit, turtleSunk), buildWater(2, 8, 10),
           turtleSunk>>,
         <<JumpingUp(7200, 10, 14), buildWater(2, 7, 10), turtleRises>>,
         <<JumpingUp(7500, 10, 12), buildWater(2, 7, 10), turtleDown>>,
         <<buildFrog(1), buildWater(2, 8, 7), vehicle>>}

\* ticks counts on from the tick the world is met in.
InitRiver ==
    /\ entities \in RiverWorlds
    /\ pairs = FrogPairs
    /\ inputs = <<>>
    /\ scene = Models(entities)
    /\ pc = "step"
    /\ events = <<>>
    /\ before = entities
    /\ ticks = MaxFrogTicks - MaxRiverTicks
    /\ ret = NoCall

NextRiver ==
    \/ \E key \in RiverKeys : pressKey(key)
    \/ \E key \in RiverKeys : releaseKey(key)
    \/ Step
    \/ HandleComponents
    \/ HandleCollisions
    \/ Draw

SpecRiver == InitRiver /\ [][NextRiver]_vars

\* ------------------------------------------------------------------- C26
\* C26: a collision phase that finds the frog not jumping on a turtle (and
\* on no vehicle) kills it exactly when the turtle is submerged with
\* velocity.z = 0; otherwise it takes no life, leaves the frog where it is
\* and makes the turtle's velocity its passive velocity, and that velocity,
\* z included, is what the next step moves the frog by.  A collision phase
\* that finds the frog jumping over a turtle or a log leaves it as it is,
\* and one that finds it jumping into a vehicle kills it.
C26_TurtleCarriesOrKills ==
    /\ [][LET i == FrogIndex(entities)
              f == entities[i]
              g == FrogOf(entities')
              kills == KillsAdded(Len(events))
          IN  /\ HandleCollisions
                 => /\ \A j \in Turtles(entities) :
                           (/\ Overlapping(i, j)
                            /\ f.properties.jumpDir = "NONE"
                            /\ ~FrogOverlaps("vehicle"))
                           => IF /\ entities[j].properties.state = "submerged"
                                 /\ entities[j].velocity.z = 0
                              THEN /\ kills >= 1
                                   /\ g.properties.lives < f.properties.lives
                                   /\ f.properties.lives >= 1
                                      => /\ kills = 1
                                         /\ g.position = ResetSquare
                              ELSE /\ kills = 0
                                   /\ g.properties.lives = f.properties.lives
                                   /\ g.position = f.position
                                   /\ g.properties.passiveVelocity =
                                          entities[j].velocity
                    /\ (/\ f.properties.jumpDir # "NONE"
                        /\ ~FrogOverlaps("vehicle")
                        /\ FrogOverlaps("turtle") \/ FrogOverlaps("log"))
                       => kills = 0 /\ g = f
                    /\ (f.properties.jumpDir # "NONE" /\ FrogOverlaps("vehicle"))
                       => /\ kills >= 1
                          /\ g.properties.lives < f.properties.lives
              /\ (Step /\ f.properties.jumpDir = "NONE" /\ KillsAdded(0) = 0)
                 => /\ g.position.x
                           = f.position.x + f.properties.passiveVelocity.x
                    /\ g.position.y
                           = f.position.y + f.properties.passiveVelocity.y
                    /\ g.position.z
                           = f.position.z + f.properties.passiveVelocity.z
         ]_vars
    /\ [](\A j \in DOMAIN entities :
              entities[j].id = FrogOf(entities).properties.passiveRef
              => FrogOf(entities).properties.passiveVelocity
                     = entities[j].velocity)

\* The frog rode the sinking turtle down and was killed by the collision
\* phase after the step in which the turtle came to rest under water.
C26_Witness ==
    /\ pc = "draw"
    /\ FrogOf(entities).position = ResetSquare
    /\ FrogOf(entities).properties.lives = 2
    /\ \E j \in Turtles(entities) :
           /\ entities[j].properties.state = "submerged"
           /\ entities[j].velocity.z = 0
           /\ entities[j].properties.stepsToSink =
                  entities[j].properties.sinkPeriod
           /\ Count(Ev("overlap", FrogOf(entities).id, entities[j].id)) = 1
    /\ Count(Ev("killFrog", FrogOf(entities).id, 0)) = 1

\* The frog has landed on a submerged turtle that is on its way up and is
\* carried up with it.
C26_WitnessCarried ==
    /\ pc = "handleComponents"
    /\ FrogOf(entities).properties.lives = 3
    /\ FrogOf(entities).properties.jumpDir = "NONE"
    /\ FrogOf(entities).position.z > 0
    /\ \E j \in Turtles(entities) :
           /\ entities[j].properties.state = "submerged"
           /\ entities[j].velocity.z > 0
           /\ entities[j].id = FrogOf(entities).properties.passiveRef

\* ------------------------------------------------------------------- C28
\* C28: the step after a collision phase that left the frog not jumping,
\* over a water tile and on no log and no turtle of the world invokes
\* killFrog, also when the frog still has the passive velocity of a platform
\* that has left the world.
C28_KilledWithoutPlatform ==
    [][(/\ Step
        /\ FrogOf(entities).properties.jumpDir = "NONE"
        /\ FrogOverlaps("water")
        /\ ~FrogOverlaps("log")
        /\ ~FrogOverlaps("turtle"))
       => KillsAdded(0) >= 1
      ]_vars

\* ------------------------------------------------------------------- C29
\* The direction of the jump the keys ask for, by precedence up, left, down,
\* right; a direction counts when its key is down and the frog, at position
\* v, is not yet on the last row or column on that side.
Chosen(in, v) ==
    IF IsPressed(in, KeyW) /\ v.y < 12 * Unit THEN "UP"
    ELSE IF IsPressed(in, KeyA) /\ v.x > 0 THEN "LEFT"
    ELSE IF IsPressed(in, KeyS) /\ v.y > 0 THEN "DOWN"
    ELSE IF IsPressed(in, KeyD) /\ v.x < 16 * Unit THEN "RIGHT"
    ELSE "NONE"

\* C29: a step that starts a jump sets a target square inside the playfield
\* (0 <= x <= 16, 0 <= y <= 12), one grid square from the grid position the
\* frog has when it jumps off, in the direction chosen with precedence up,
\* left, down, right, also when the frog has drifted to a non-integer x.
C29_TargetInPlayfield ==
    [][LET f == FrogOf(entities)
           g == FrogOf(entities')
           v == Vec(f.position.x + f.properties.passiveVelocity.x,
                    f.position.y + f.properties.passiveVelocity.y,
                    f.position.z + f.properties.passiveVelocity.z)
           t == g.properties.targetSquare
       IN  (/\ Step
            /\ f.properties.jumpDir = "NONE"
            /\ g.properties.jumpDir # "NONE")
           => /\ g.properties.jumpDir = Chosen(inputs, v)
              /\ t.x = Round(v.x) + (CASE g.properties.jumpDir = "LEFT" -> -Unit
                                       [] g.properties.jumpDir = "RIGHT" -> Unit
                                       [] OTHER -> 0)
              /\ t.y = Round(v.y) + (CASE g.properties.jumpDir = "DOWN" -> -Unit
                                       [] g.properties.jumpDir = "UP" -> Unit
                                       [] OTHER -> 0)
              /\ 0 <= t.x /\ t.x <= 16 * Unit
              /\ 0 <= t.y /\ t.y <= 12 * Unit
      ]_vars

====
